---- MODULE Spec2Model ----
(***************************************************************************)
(* A model of the financial-literacy chatbot repository:                   *)
(*   - database_builder.py : JSONL loader and the embedding-store indexer  *)
(*   - pdf_processor.py    : chunker and the per-PDF chunk file writer     *)
(*   - data_cleaner.py     : the cleaning pass over chunk files            *)
(*   - s_app.py            : query expansion, prompt assembly, chat page   *)
(* Each subsystem has its own specification over the shared variables; a   *)
(* specification holds the variables of the other subsystems at rest.      *)
(***************************************************************************)
EXTENDS Integers, Sequences, FiniteSets, TLC

VARIABLES
    store,      \* the Chroma collection: the sequence of stored Documents
    run,        \* the last finished run of database_builder.main
    writers,    \* concurrent runs of database_builder.main, one per process
    glob_files, \* the JSONL files a call of load_and_prepare_docs finds
    loaded,     \* what that call returned
    \* one call of pdf_processor.chunk_text
    text, chunk_size, chunk_overlap,    \* its arguments
    start, chunks,                      \* its locals
    chunk_pc,                           \* "loop" or "done"
    chunk_result,                       \* the list it returned
    \* one run of pdf_processor.main and the runs of data_cleaner.main after it
    args,                               \* --chunk_size and --chunk_overlap
    pdf_paths,                          \* the PDFs os.listdir found
    pdf_i,                              \* PDFs the loop of main has gone through
    pdf_pc,                             \* "start", "loop", "done" or "killed"
    pdf_log,                            \* what became of each PDF gone through
    data_chunks,                        \* the files of ./data_chunks, by stem
    data_clean_chunks,                  \* the files of ./data_clean_chunks, by stem
    \* one browser session on the chatbot page
    messages,                           \* st.session_state.messages
    chat,                               \* what handling the last chat input did
    \* one run of data_cleaner.main over chunk files of any content
    clean_in,                           \* the files glob found, in its order
    clean_out,                          \* the files of the output folder, by name
    clean_run,                          \* how the run ended and its summaries
    \* one call of read_pdf_text_pages
    pdf_doc,                            \* the PDF: how pdfplumber opens it, its pages
    extract_opts,                       \* OCR_AVAILABLE and extract_images
    extracted,                          \* how the call ended and what it returned
    \* one call of clean_text
    raw_text,                           \* its argument
    cleaned,                            \* whether it has returned, and what
    \* one call of the debt-ratio calculator
    calc,                               \* its arguments and what it returned
    \* st.session_state of one browser session of s_app.py
    current_page, pre_test_completed, post_test_completed, user_id,
    clicked,                            \* the input the last rerun of the script came from
    \* the JSON files under data/ and the sessions writing to them
    data_files,                         \* what each file holds
    savers                              \* the calls of save_* under way, one per session

indexerVars == <<store, run, writers, glob_files, loaded>>
chunkVars == <<text, chunk_size, chunk_overlap, start, chunks, chunk_pc, chunk_result>>

pipelineVars == <<args, pdf_paths, pdf_i, pdf_pc, pdf_log, data_chunks, data_clean_chunks>>
chatVars == <<messages, chat>>

cleanerVars == <<clean_in, clean_out, clean_run>>
extractVars == <<pdf_doc, extract_opts, extracted>>

cleanTextVars == <<raw_text, cleaned>>

calcVars == <<calc>>
sessionVars == <<current_page, pre_test_completed, post_test_completed, user_id, clicked>>
saveVars == <<data_files, savers>>
webVars == <<calcVars, sessionVars, saveVars>>

vars == <<indexerVars, chunkVars, pipelineVars, chatVars, cleanerVars, extractVars,
          cleanTextVars, webVars>>

(***************************************************************************)
(* Bounds of the model.                                                    *)
(***************************************************************************)
MaxLines == 2       \* lines per JSONL input file
MaxTextLen == 5     \* characters of a text given to chunk_text
MaxChunkSize == 3   \* the largest chunk_size and chunk_overlap given to chunk_text
MaxWindows == 6     \* iterations of the chunk_text loop that are followed

(***************************************************************************)
(* Helpers.                                                                *)
(***************************************************************************)
Restrict(f, S) == [k \in S |-> f[k]]

\* the sequences over S of length at most n
SeqsUpTo(S, n) == UNION {[1..m -> S] : m \in 0..n}

(***************************************************************************)
(* JSON values as json.loads produces them.  A list carries the text that  *)
(* json.dumps gives for it; a dict carries that text and its items.        *)
(***************************************************************************)
JStr(s)  == [t |-> "str",  v |-> s]
JNum(s)  == [t |-> "num",  v |-> s]
JNull    == [t |-> "null", v |-> ""]
JList(s) == [t |-> "list", v |-> s]
JDict(s, m) == [t |-> "dict", v |-> s, items |-> m]

\* isinstance(v, (str, int, float, bool)) or v is None
IsPrimitive(v) == v.t \in {"str", "num", "bool", "null"}

\* json.dumps(v, ensure_ascii=False): the serialized text, a str
Dumps(v) == JStr(v.v)

\* Python truthiness of a JSON value
Truthy(v) ==
    CASE v.t = "null" -> FALSE
      [] v.t = "str"  -> v.v # ""
      [] v.t = "num"  -> v.v # "0"
      [] v.t = "bool" -> v.v = "true"
      [] v.t = "list" -> v.v # "[]"
      [] v.t = "dict" -> v.v # "{}"

(***************************************************************************)
(* database_builder.load_and_prepare_docs                                  *)
(***************************************************************************)
\* hashlib.sha256(text.encode("utf-8")).hexdigest()[:16]: a digest of the text alone
Sha256Hex16(txt) ==
    CASE txt = "alpha" -> "3a1f"
      [] txt = "beta"  -> "9c47"
      [] OTHER          -> "e0d2"

\* lines 42-49: copy the record, flatten a nested "metadata" dict, drop "text"
RawMeta(data) ==
    LET nestedIsDict == "metadata" \in DOMAIN data /\ data["metadata"].t = "dict"
        popped == IF nestedIsDict THEN Restrict(data, DOMAIN data \ {"metadata"}) ELSE data
        merged == IF nestedIsDict THEN data["metadata"].items @@ popped ELSE popped
    IN  Restrict(merged, DOMAIN merged \ {"text"})

\* every value kept as it is, serialized or not
SafeMetaUnserialized(raw) == raw

\* lines 51-59: keep primitive values, serialize the others
SafeMeta(raw) ==
    [k \in DOMAIN raw |-> IF IsPrimitive(raw[k]) THEN raw[k] ELSE Dumps(raw[k])]

\* the content hash written before the record's own keys are copied over it
MakeDocumentHashFirst(data) ==
    LET txt  == data["text"].v
        h    == Sha256Hex16(txt)
        safe == SafeMeta(RawMeta(data))
    IN  [page_content |-> txt,
         metadata |-> safe @@ ("content_hash" :> JStr(h))]

\* lines 60-61: the content hash is written last, over any key of that name
MakeDocument(data) ==
    LET txt  == data["text"].v
        h    == Sha256Hex16(txt)
        safe == SafeMeta(RawMeta(data))
    IN  [page_content |-> txt,
         metadata |-> ("content_hash" :> JStr(h)) @@ safe]

\* lines 35-63, one line of a file:
\*   "warn"  json.loads raised JSONDecodeError, caught, a warning is printed
\*   "raise" an exception the except clause does not name leaves the function
\*   "skip"  `if not text: continue`
\*   "doc"   a Document is appended
LineOutcome(line) ==
    CASE line.kind = "badjson"   -> "warn"
      [] line.kind = "nonobject" -> "raise"      \* data.get: AttributeError
      [] OTHER ->
           IF "text" \notin DOMAIN line.data       THEN "skip"
           ELSE IF ~Truthy(line.data["text"])      THEN "skip"
           ELSE IF line.data["text"].t # "str"     THEN "raise"  \* text.encode: AttributeError
           ELSE "doc"

RECURSIVE LoadLines(_, _)
\* the loop over the lines of one file, from the state acc = [docs, warnings, raised]
LoadLines(lines, acc) ==
    IF lines = <<>> \/ acc.raised THEN acc
    ELSE LET line == Head(lines)
             o    == LineOutcome(line)
         IN  LoadLines(Tail(lines),
                CASE o = "doc"   -> [acc EXCEPT !.docs = Append(@, MakeDocument(line.data))]
                  [] o = "warn"  -> [acc EXCEPT !.warnings = @ + 1]
                  [] o = "raise" -> [acc EXCEPT !.raised = TRUE]
                  [] OTHER       -> acc)

RECURSIVE LoadFiles(_, _)
LoadFiles(files, acc) ==
    IF files = <<>> \/ acc.raised THEN acc
    ELSE LoadFiles(Tail(files), LoadLines(Head(files), acc))

\* load_and_prepare_docs(glob_path): files is what glob(glob_path) returns
\*   "not_found" line 29 raised FileNotFoundError
\*   "raised"    another exception left the function: no list is returned
\*   "ok"        the list docs is returned
load_and_prepare_docs(files) ==
    IF files = <<>>
    THEN [outcome |-> "not_found", docs |-> <<>>, warnings |-> 0]
    ELSE LET r == LoadFiles(files, [docs |-> <<>>, warnings |-> 0, raised |-> FALSE])
         IN  IF r.raised
             THEN [outcome |-> "raised", docs |-> <<>>, warnings |-> r.warnings]
             ELSE [outcome |-> "ok", docs |-> r.docs, warnings |-> r.warnings]

(***************************************************************************)
(* The input lines the model draws from.                                   *)
(***************************************************************************)
Obj(m) == [kind |-> "object", data |-> m]

LineAlpha ==
    Obj(("id" :> JStr("c0")) @@ ("chunk_index" :> JNum("0")) @@ ("text" :> JStr("alpha")))
\* the same text under other metadata, carrying a content_hash of its own
LineAlphaOwnHash ==
    Obj(("id" :> JStr("c7")) @@ ("chunk_index" :> JNum("7")) @@ ("text" :> JStr("alpha"))
        @@ ("content_hash" :> JStr("ffff")))
\* another text, with a nested metadata object that holds a content_hash and a list
LineBetaNested ==
    Obj(("id" :> JStr("c1")) @@ ("text" :> JStr("beta"))
        @@ ("metadata" :> JDict("{..}",
              ("content_hash" :> JStr("0000")) @@ ("page" :> JNum("3"))
              @@ ("tags" :> JList("[\"a\"]")))))
LineBeta == Obj(("id" :> JStr("c5")) @@ ("chunk_index" :> JNum("1")) @@ ("text" :> JStr("beta")))
LineNoText   == Obj(("id" :> JStr("c2")) @@ ("chunk_index" :> JNum("2")))
LineEmptyText == Obj(("id" :> JStr("c3")) @@ ("text" :> JStr("")))
LineNumText  == Obj(("id" :> JStr("c4")) @@ ("text" :> JNum("5")))
\* a third text; the nested metadata object holds a text, a metadata object of its
\* own and a content_hash, and the record holds an object under another key
LineGammaDeep ==
    Obj(("id" :> JStr("c6")) @@ ("text" :> JStr("gamma"))
        @@ ("extra" :> JDict("{\"a\": 1}", ("a" :> JNum("1"))))
        @@ ("metadata" :> JDict("{...}",
              ("text" :> JStr("delta")) @@ ("content_hash" :> JStr("1111"))
              @@ ("metadata" :> JDict("{\"p\": 2}", ("p" :> JNum("2")))))))
LineBadJson  == [kind |-> "badjson"]
LineNonObject == [kind |-> "nonobject"]

\* the lines of the cleaned chunk files the indexer runs are given
IndexLines == {LineAlpha, LineAlphaOwnHash, LineBetaNested}

\* one JSONL file of at most MaxLines lines, or no file at all
IndexCorpora == {<<>>} \cup {<<f>> : f \in SeqsUpTo(IndexLines, MaxLines)}

(***************************************************************************)
(* database_builder.main                                                   *)
(***************************************************************************)
\* the scan reading a key that no stored metadata holds
ExistingHashesWrongKey(s) ==
    {s[i].metadata["hash"] : i \in {j \in DOMAIN s : "hash" \in DOMAIN s[j].metadata}}

\* line 96: the content_hash values of the metadata scan
ExistingHashes(s) ==
    {s[i].metadata["content_hash"] :
        i \in {j \in DOMAIN s : "content_hash" \in DOMAIN s[j].metadata}}

\* doc.metadata.get("content_hash")
MetaHash(doc) ==
    IF "content_hash" \in DOMAIN doc.metadata THEN doc.metadata["content_hash"] ELSE JNull

\* the incoming documents, unfiltered
NewDocsUnfiltered(docs, existing) == docs

\* line 97: the incoming documents whose hash the scan did not return
NewDocs(docs, existing) == SelectSeq(docs, LAMBDA d : MetaHash(d) \notin existing)

\* from_documents without the delete_collection before it
ResetWithoutDelete(s, docs) == s \o docs

\* lines 92-93: delete_collection, then from_documents
ResetCollection(s, docs) == docs

\* line 102: add_documents
AddDocuments(s, docs) == s \o docs

\* load_and_prepare_docs over each corpus of the indexer runs, computed once
IndexLoads == [files \in IndexCorpora |-> load_and_prepare_docs(files)]

\* lines 77-85: load the documents; main returns when there are none
\* lines 90-103: reset, or add the documents whose hash is new
MainResult(s, files, reset) ==
    LET ld == IndexLoads[files]
    IN  IF ld.outcome # "ok" THEN [store |-> s, outcome |-> ld.outcome, docs |-> <<>>]
        ELSE IF ld.docs = <<>> THEN [store |-> s, outcome |-> "no_docs", docs |-> <<>>]
        ELSE IF reset
             THEN [store |-> ResetCollection(s, ld.docs), outcome |-> "reset",
                   docs |-> ld.docs]
             ELSE LET new_docs == NewDocs(ld.docs, ExistingHashes(s))
                  IN  IF new_docs = <<>>
                      THEN [store |-> s, outcome |-> "nothing_new", docs |-> ld.docs]
                      ELSE [store |-> AddDocuments(s, new_docs), outcome |-> "added",
                            docs |-> ld.docs]

NoRun == [mode |-> "none", files |-> <<>>, docs |-> <<>>, outcome |-> "none",
          store_before |-> <<>>, rerun |-> FALSE]

NoLoad == [outcome |-> "none", docs |-> <<>>, warnings |-> 0]

\* no call of chunk_text is under way
ChunkAtRest ==
    /\ text = <<>> /\ chunk_size = 0 /\ chunk_overlap = 0
    /\ start = 0 /\ chunks = <<>> /\ chunk_pc = "none" /\ chunk_result = <<>>

\* the stems of the PDFs of the input folder
PdfNames == {"guide", "table", "leaflet", "scan", "blank"}

NoFile == [exists |-> FALSE, records |-> <<>>]

\* pdf_processor.main has not been started and both folders are empty
PipelineAtRest ==
    /\ args = [chunk_size |-> 0, chunk_overlap |-> 0]
    /\ pdf_paths = <<>> /\ pdf_i = 0 /\ pdf_pc = "none" /\ pdf_log = <<>>
    /\ data_chunks = [n \in PdfNames |-> NoFile]
    /\ data_clean_chunks = [n \in PdfNames |-> NoFile]

NoChat == [query |-> <<>>, expanded |-> <<>>, retrieval |-> "none", docs |-> <<>>,
           prompt |-> <<>>, llm_called |-> FALSE, shown |-> "none"]

\* no chat input has been handled
ChatAtRest == messages = <<>> /\ chat = NoChat

\* the names of the chunk files given to the cleaner
CleanNames == {"a", "b"}

NoCleanRun == [outcome |-> "none", summaries |-> <<>>]

\* data_cleaner.main has not been started
CleanerAtRest ==
    /\ clean_in = <<>>
    /\ clean_out = [n \in CleanNames |-> NoFile]
    /\ clean_run = NoCleanRun

NoExtraction == [outcome |-> "none", texts |-> <<>>, full_ocr |-> <<>>]

\* read_pdf_text_pages has not been called
ExtractAtRest ==
    /\ pdf_doc = [opens |-> TRUE, pages |-> <<>>]
    /\ extract_opts = [ocr_available |-> FALSE, extract_images |-> FALSE]
    /\ extracted = NoExtraction

\* clean_text has not been called
CleanTextAtRest == raw_text = <<>> /\ cleaned = [done |-> FALSE, text |-> <<>>]

\* no call of the calculator yet
NoCalc ==
    [called |-> FALSE, income |-> 0, debt_payments |-> 0, ratio |-> [num |-> 0, den |-> 1],
     status |-> "none"]

CalcAtRest == calc = NoCalc

\* s_app.py lines 48-57: the session state of a new browser session
SessionAtRest ==
    /\ current_page = "welcome"
    /\ pre_test_completed = FALSE
    /\ post_test_completed = FALSE
    /\ user_id = 1
    /\ clicked = "none"

\* the files save_test_results and save_feedback write
DataFileNames == {"test_results", "user_feedback"}

\* a file that does not exist yet: reading it gives the empty list of entries
NoDataFile == [bytes |-> "absent", entries |-> <<>>]

SaveAtRest == data_files = [f \in DataFileNames |-> NoDataFile] /\ savers = <<>>

WebAtRest == CalcAtRest /\ SessionAtRest /\ SaveAtRest

\* one run of main, from start to end, with no other run beside it
Main(files, reset) ==
    LET r    == MainResult(store, files, reset)
        mode == IF reset THEN "reset" ELSE "incremental"
    IN  /\ store' = r.store
        /\ run' = [mode |-> mode, files |-> files, docs |-> r.docs, outcome |-> r.outcome,
                   store_before |-> store,
                   rerun |-> run.mode = mode /\ run.files = files]
        /\ UNCHANGED <<writers, glob_files, loaded>>
        /\ UNCHANGED <<chunkVars, pipelineVars, chatVars, cleanerVars, extractVars, cleanTextVars, webVars>>

IndexerInit ==
    /\ store = <<>>
    /\ run = NoRun
    /\ writers = <<>>
    /\ glob_files = <<>>
    /\ loaded = NoLoad
    /\ ChunkAtRest /\ PipelineAtRest /\ ChatAtRest /\ WebAtRest /\ CleanerAtRest /\ ExtractAtRest /\ CleanTextAtRest

IndexerNext == \E files \in IndexCorpora, reset \in BOOLEAN : Main(files, reset)

\* runs of main one after the other, in either mode, over any of the corpora
SpecIndexer == IndexerInit /\ [][IndexerNext]_vars

(***************************************************************************)
(* Two runs of main in incremental mode at the same time, each its own     *)
(* process on the same persist directory.  A step is one call of the store *)
(* (the metadata scan of line 96, add_documents of line 102) with the      *)
(* process's own computation up to it.                                     *)
(***************************************************************************)
Procs == {"w1", "w2"}

IdleWriter == [pc |-> "start", docs |-> <<>>, new_docs |-> <<>>, added |-> FALSE]

\* lines 77-88: the documents are loaded; main returns when there are none
WriterLoad(p, files) ==
    /\ writers[p].pc = "start"
    /\ LET ld == IndexLoads[files]
       IN  writers' = [writers EXCEPT ![p] =
               IF ld.outcome = "ok" /\ ld.docs # <<>>
               THEN [@ EXCEPT !.pc = "scan", !.docs = ld.docs]
               ELSE [@ EXCEPT !.pc = "done"]]
    /\ UNCHANGED <<store, run, glob_files, loaded>>
    /\ UNCHANGED <<chunkVars, pipelineVars, chatVars, cleanerVars, extractVars, cleanTextVars, webVars>>

\* lines 96-100: the scan and the filter; main returns when nothing is new
WriterScan(p) ==
    /\ writers[p].pc = "scan"
    /\ LET new_docs == NewDocs(writers[p].docs, ExistingHashes(store))
       IN  writers' = [writers EXCEPT ![p] =
               [@ EXCEPT !.pc = IF new_docs = <<>> THEN "done" ELSE "add",
                         !.new_docs = new_docs]]
    /\ UNCHANGED <<store, run, glob_files, loaded>>
    /\ UNCHANGED <<chunkVars, pipelineVars, chatVars, cleanerVars, extractVars, cleanTextVars, webVars>>

\* line 102
WriterAdd(p) ==
    /\ writers[p].pc = "add"
    /\ store' = AddDocuments(store, writers[p].new_docs)
    /\ writers' = [writers EXCEPT ![p] = [@ EXCEPT !.pc = "done", !.added = TRUE]]
    /\ UNCHANGED <<run, glob_files, loaded>>
    /\ UNCHANGED <<chunkVars, pipelineVars, chatVars, cleanerVars, extractVars, cleanTextVars, webVars>>

ConcurrentInit ==
    /\ store = <<>>
    /\ run = NoRun
    /\ writers = [p \in Procs |-> IdleWriter]
    /\ glob_files = <<>>
    /\ loaded = NoLoad
    /\ ChunkAtRest /\ PipelineAtRest /\ ChatAtRest /\ WebAtRest /\ CleanerAtRest /\ ExtractAtRest /\ CleanTextAtRest

ConcurrentNext ==
    \E p \in Procs :
        \/ \E files \in IndexCorpora : WriterLoad(p, files)
        \/ WriterScan(p)
        \/ WriterAdd(p)

SpecConcurrent == ConcurrentInit /\ [][ConcurrentNext]_vars

(***************************************************************************)
(* One call of load_and_prepare_docs over no file, one file, or one file   *)
(* and a second file of at most one line.                                  *)
(***************************************************************************)
LoaderLines == {LineAlpha, LineAlphaOwnHash, LineBeta, LineBetaNested, LineGammaDeep,
                LineNoText, LineEmptyText, LineNumText, LineBadJson, LineNonObject}

LoaderFiles == SeqsUpTo(LoaderLines, MaxLines)

SecondFiles == {<<>>} \cup {<<l>> : l \in LoaderLines}

LoaderCorpora == {<<>>} \cup {<<f>> : f \in LoaderFiles}
                    \cup {<<f, g>> : f \in LoaderFiles, g \in SecondFiles}

LoadDocs ==
    /\ loaded.outcome = "none"
    /\ loaded' = load_and_prepare_docs(glob_files)
    /\ UNCHANGED <<store, run, writers, glob_files>>
    /\ UNCHANGED <<chunkVars, pipelineVars, chatVars, cleanerVars, extractVars, cleanTextVars, webVars>>

LoaderInit ==
    /\ store = <<>>
    /\ run = NoRun
    /\ writers = <<>>
    /\ glob_files \in LoaderCorpora
    /\ loaded = NoLoad
    /\ ChunkAtRest /\ PipelineAtRest /\ ChatAtRest /\ WebAtRest /\ CleanerAtRest /\ ExtractAtRest /\ CleanTextAtRest

LoaderNext == LoadDocs

SpecLoader == LoaderInit /\ [][LoaderNext]_vars

(***************************************************************************)
(* pdf_processor.chunk_text.  A text is a sequence of characters.          *)
(***************************************************************************)
IsSpace(c) == c \in {" ", "\t", "\n", "\r", "<nbsp>"}

\* s[a:b] as Python slices a str
PySlice(s, a, b) ==
    LET n  == Len(s)
        lo == IF a < 0 THEN (IF n + a < 0 THEN 0 ELSE n + a) ELSE (IF a > n THEN n ELSE a)
        hi == IF b < 0 THEN (IF n + b < 0 THEN 0 ELSE n + b) ELSE (IF b > n THEN n ELSE b)
    IN  SubSeq(s, lo + 1, hi)

RECURSIVE LStrip(_)
LStrip(s) == IF s # <<>> /\ IsSpace(Head(s)) THEN LStrip(Tail(s)) ELSE s

RECURSIVE RStrip(_)
RStrip(s) ==
    IF s # <<>> /\ IsSpace(s[Len(s)]) THEN RStrip(SubSeq(s, 1, Len(s) - 1)) ELSE s

\* str.strip()
Strip(s) == RStrip(LStrip(s))

\* line 142: [c.strip() for c in chunks if c.strip()]
StripChunks(cs) ==
    LET stripped == [i \in DOMAIN cs |-> Strip(cs[i])]
    IN  SelectSeq(stripped, LAMBDA c : c # <<>>)

\* the next window start with the overlap left out of the step
NextStartNoOverlap(st, size, overlap) == st + size

\* the step assigned to start instead of added to it
NextStartAssigned(st, size, overlap) == size - overlap

\* line 141: start += chunk_size - chunk_overlap
NextStart(st, size, overlap) == st + size - overlap

\* lines 137-141, one iteration of the loop from the locals (st, cs):
\* the locals after it and whether the loop was left by `break`
LoopBody(txt, size, overlap, st, cs) ==
    LET end   == st + size
        chunk == PySlice(txt, st, end)
    IN  [chunks |-> Append(cs, chunk),
         start  |-> IF end >= Len(txt) THEN st ELSE NextStart(st, size, overlap),
         break  |-> end >= Len(txt)]

\* the loop runs for ever when the start does not advance and the first window
\* does not reach the end of the text
ChunkTerminates(txt, size, overlap) == overlap < size \/ Len(txt) <= size

RECURSIVE ChunkLoop(_, _, _, _, _)
\* lines 136-141: the loop from the locals (st, cs), for a call that terminates
ChunkLoop(txt, size, overlap, st, cs) ==
    IF ~(st < Len(txt)) THEN cs
    ELSE LET b == LoopBody(txt, size, overlap, st, cs)
         IN  IF b.break THEN b.chunks ELSE ChunkLoop(txt, size, overlap, b.start, b.chunks)

\* chunk_text(text, chunk_size, chunk_overlap), for a call that terminates
chunk_text(txt, size, overlap) == StripChunks(ChunkLoop(txt, size, overlap, 0, <<>>))

\* one iteration of the loop of the call under way; the function returns after
\* the iteration that breaks
ChunkIterate ==
    /\ chunk_pc = "loop"
    /\ start < Len(text)
    /\ Len(chunks) < MaxWindows
    /\ LET b == LoopBody(text, chunk_size, chunk_overlap, start, chunks)
       IN  /\ chunks' = b.chunks
           /\ start' = b.start
           /\ chunk_pc' = IF b.break THEN "done" ELSE "loop"
           /\ chunk_result' = IF b.break THEN StripChunks(b.chunks) ELSE chunk_result
    /\ UNCHANGED <<text, chunk_size, chunk_overlap>>
    /\ UNCHANGED <<indexerVars, pipelineVars, chatVars, cleanerVars, extractVars, cleanTextVars, webVars>>

\* line 136 false: the loop is left at its head and the function returns
ChunkReturn ==
    /\ chunk_pc = "loop"
    /\ ~(start < Len(text))
    /\ chunk_pc' = "done"
    /\ chunk_result' = StripChunks(chunks)
    /\ UNCHANGED <<text, chunk_size, chunk_overlap, start, chunks>>
    /\ UNCHANGED <<indexerVars, pipelineVars, chatVars, cleanerVars, extractVars, cleanTextVars, webVars>>

ChunkAlphabet == {"a", "b", " "}

IndexerAtRest ==
    /\ store = <<>> /\ run = NoRun /\ writers = <<>>
    /\ glob_files = <<>> /\ loaded = NoLoad

\* a call chunk_text(text, chunk_size, chunk_overlap), lines 134-135 done
ChunkInit ==
    /\ text \in SeqsUpTo(ChunkAlphabet, MaxTextLen)
    /\ chunk_size \in 1..MaxChunkSize
    /\ chunk_overlap \in 0..MaxChunkSize
    /\ start = 0
    /\ chunks = <<>>
    /\ chunk_pc = "loop"
    /\ chunk_result = <<>>
    /\ IndexerAtRest /\ PipelineAtRest /\ ChatAtRest /\ WebAtRest /\ CleanerAtRest /\ ExtractAtRest /\ CleanTextAtRest

ChunkNext == ChunkIterate \/ ChunkReturn

SpecChunk == ChunkInit /\ [][ChunkNext]_vars

\* the call runs on for as long as it has a step to take
SpecChunkFair == SpecChunk /\ WF_vars(ChunkNext)

(***************************************************************************)
(* Characters.  A character is a one-character string; a character outside *)
(* ASCII is written as a name in angle brackets and counts as one          *)
(* character: "<fi>" U+FB01, "<nbsp>" U+00A0, "<copy>" U+00A9,             *)
(* "<bullet>" U+2022, "<endash>" U+2013.                                   *)
(***************************************************************************)
LowerLetters == <<"a","b","c","d","e","f","g","h","i","j","k","l","m","n","o","p","q","r","s","t","u","v","w","x","y","z">>
UpperLetters == <<"A","B","C","D","E","F","G","H","I","J","K","L","M","N","O","P","Q","R","S","T","U","V","W","X","Y","Z">>
Digits == {"0", "1", "2", "3", "4", "5", "6", "7", "8", "9"}

Range(f) == {f[i] : i \in DOMAIN f}

\* str.isalpha() of one character
IsAlpha(c) == c \in Range(LowerLetters) \cup Range(UpperLetters) \cup {"<fi>"}

\* \d
IsDigit(c) == c \in Digits

\* \w
IsWord(c) == IsAlpha(c) \/ IsDigit(c) \/ c = "_"

\* \s, and what str.strip() removes
IsWhite(c) == IsSpace(c)

\* the character lowercased, as re.IGNORECASE compares
Lower(c) ==
    IF \E i \in DOMAIN UpperLetters : UpperLetters[i] = c
    THEN LowerLetters[CHOOSE i \in DOMAIN UpperLetters : UpperLetters[i] = c]
    ELSE c

SetMin(S) == CHOOSE x \in S : \A y \in S : x <= y

SetMax(S) == CHOOSE x \in S : \A y \in S : x >= y

\* the least position of stops; Len(s) + 1 when there is none, and i itself
\* when i is past the end of s
FirstStop(s, i, stops) ==
    IF i > Len(s) THEN i
    ELSE IF stops = {} THEN Len(s) + 1
    ELSE SetMin(stops)

\* \s* from position i: the first position from i on that holds no whitespace
SkipWhite(s, i) == FirstStop(s, i, {j \in i..Len(s) : ~IsWhite(s[j])})

\* \d* from position i: the first position from i on that holds no digit
SkipDigits(s, i) == FirstStop(s, i, {j \in i..Len(s) : ~IsDigit(s[j])})

\* the sequences of seqs[lo..hi] one after another
RECURSIVE ConcatRange(_, _, _)
ConcatRange(seqs, lo, hi) ==
    IF lo > hi THEN <<>>
    ELSE IF lo = hi THEN seqs[lo]
    ELSE LET mid == (lo + hi) \div 2
         IN  ConcatRange(seqs, lo, mid) \o ConcatRange(seqs, mid + 1, hi)

ConcatAll(seqs) == ConcatRange(seqs, 1, Len(seqs))

\* the literal w stands at position i of s, letter case ignored
LiteralAt(s, i, w) ==
    /\ i + Len(w) - 1 <= Len(s)
    /\ \A k \in DOMAIN w : Lower(s[i + k - 1]) = w[k]

\* str.strip(): the text between its first and its last non-whitespace character
PyStrip(s) ==
    LET black == {i \in DOMAIN s : ~IsWhite(s[i])}
    IN  IF black = {} THEN <<>> ELSE SubSeq(s, SetMin(black), SetMax(black))

\* str.split(sep) for a one-character sep: the pieces between the separators
Split(s, sep) ==
    LET at     == {i \in DOMAIN s : s[i] = sep}
        cut(k) == IF k = 0 THEN 0
                  ELSE IF k = Cardinality(at) + 1 THEN Len(s) + 1
                  ELSE CHOOSE p \in at : Cardinality({q \in at : q < p}) = k - 1
    IN  [k \in 1..(Cardinality(at) + 1) |-> SubSeq(s, cut(k - 1) + 1, cut(k) - 1)]

SplitLines(s) == Split(s, "\n")

\* sep.join(parts)
Join(parts, sep) ==
    ConcatAll([i \in DOMAIN parts |-> IF i = 1 THEN parts[i] ELSE sep \o parts[i]])

(***************************************************************************)
(* data_cleaner.clean_text                                                 *)
(***************************************************************************)
\* line 27: unicodedata.normalize("NFKC", raw), character by character
Nfkc(s) ==
    ConcatAll([i \in DOMAIN s |-> CASE s[i] = "<fi>"   -> <<"f", "i">>
                                    [] s[i] = "<nbsp>" -> <<" ">>
                                    [] OTHER           -> <<s[i]>>])

\* line 28: "\r\n" and "\r" become "\n"
NormalizeNewlines(s) ==
    ConcatAll([i \in DOMAIN s |->
        IF s[i] = "\r" THEN <<"\n">>
        ELSE IF s[i] = "\n" /\ i > 1 /\ s[i - 1] = "\r" THEN <<>>
        ELSE <<s[i]>>])

\* a pattern that takes only "page N" in small letters for a page number
MatchesPageNumberCased(s) ==
    LET i0 == SkipWhite(s, 1)
        i1 == SkipWhite(s, i0 + 4)
        i2 == SkipDigits(s, i1)
        i3 == SkipWhite(s, i2)
    IN  /\ i0 + 3 <= Len(s) /\ SubSeq(s, i0, i0 + 3) = <<"p", "a", "g", "e">>
        /\ i2 > i1
        /\ i3 = Len(s) + 1

\* ^\s*page\s*\d+\s*(of\s*\d+)?\s*$
MatchesPageNumber(s) ==
    LET i0 == SkipWhite(s, 1)
        i1 == SkipWhite(s, i0 + 4)
        i2 == SkipDigits(s, i1)
        i3 == SkipWhite(s, i2)
        i4 == SkipWhite(s, i3 + 2)
        i5 == SkipDigits(s, i4)
        i6 == SkipWhite(s, i5)
    IN  /\ LiteralAt(s, i0, <<"p", "a", "g", "e">>)
        /\ i2 > i1
        /\ \/ i3 = Len(s) + 1
           \/ /\ LiteralAt(s, i3, <<"o", "f">>)
              /\ i5 > i4
              /\ i6 = Len(s) + 1

\* ^\s*\d+\s*$
MatchesBareNumber(s) ==
    LET i0 == SkipWhite(s, 1)
        i1 == SkipDigits(s, i0)
    IN  i1 > i0 /\ SkipWhite(s, i1) = Len(s) + 1

\* \b between position i - 1 and position i of s
WordBoundaryAt(s, i) ==
    LET before == i > 1 /\ i - 1 <= Len(s) /\ IsWord(s[i - 1])
        after  == i >= 1 /\ i <= Len(s) /\ IsWord(s[i])
    IN  before # after

\* ^\s*w\b.*$ for a literal w
MatchesNotice(s, w) ==
    LET i0 == SkipWhite(s, 1)
    IN  LiteralAt(s, i0, w) /\ WordBoundaryAt(s, i0 + Len(w))

\* lines 8-11 and 33: the line matches one of HEADER_FOOTER_PATTERNS
MatchesHeaderFooter(s) ==
    \/ MatchesPageNumber(s)
    \/ MatchesBareNumber(s)
    \/ MatchesNotice(s, <<"c", "o", "p", "y", "r", "i", "g", "h", "t">>)
    \/ MatchesNotice(s, <<"<copy>">>)
    \/ MatchesNotice(s, <<"c", "o", "n", "f", "i", "d", "e", "n", "t", "i", "a", "l">>)
    \/ MatchesNotice(s, <<"f", "o", "r", " ", "i", "n", "t", "e", "r", "n", "a", "l", " ",
                          "u", "s", "e", " ", "o", "n", "l", "y">>)

\* sum(ch.isalpha() for ch in s)
CountAlpha(s) == Cardinality({i \in DOMAIN s : IsAlpha(s[i])})

\* (.)\1{4,}: five equal characters in a row
HasRunOfFive(s) ==
    \E i \in DOMAIN s : i + 4 <= Len(s) /\ \A k \in 1..4 : s[i + k] = s[i]

\* lines 14-19; letters / max(1, len(s)) < 0.4 is 10 * letters < 4 * max(1, len(s))
LooksLikeNoise(s) ==
    \/ PyStrip(s) = <<>>
    \/ 10 * CountAlpha(s) < 4 * (IF Len(s) > 1 THEN Len(s) ELSE 1)
    \/ HasRunOfFive(s)

\* BULLET_MARKS, line 12
IsBullet(c) == c \in {"<bullet>", "<endash>", "*"}

\* lines 21-23 on one line of the text: a bullet mark at the line's start, with the
\* whitespace around it, becomes "- "
NormalizeBulletLine(ln) ==
    LET i == SkipWhite(ln, 1)
    IN  IF i <= Len(ln) /\ IsBullet(ln[i])
        THEN <<"-", " ">> \o SubSeq(ln, SkipWhite(ln, i + 1), Len(ln))
        ELSE ln

\* lines 31-35: the lines that are neither header/footer nor noise
KeptLines(lines) ==
    SelectSeq(lines, LAMBDA ln :
        ~MatchesHeaderFooter(PyStrip(ln)) /\ ~LooksLikeNoise(PyStrip(ln)))

MinCleanLength == 50

\* clean_text, lines 26-37: the text before its length is looked at
CleanedLines(raw) ==
    IF raw = <<>> THEN <<>>
    ELSE LET lines == SplitLines(NormalizeNewlines(Nfkc(raw)))
             kept  == KeptLines(lines)
         IN  PyStrip(Join([i \in DOMAIN kept |-> NormalizeBulletLine(kept[i])], <<"\n">>))

\* the text without the length threshold
CleanTextAnyLength(raw) == CleanedLines(raw)

\* clean_text(raw), lines 25-39
clean_text(raw) ==
    LET s == CleanedLines(raw)
    IN  IF Len(s) < MinCleanLength THEN <<>> ELSE s

(***************************************************************************)
(* pdf_processor: clean_and_stitch_text, process_pdf and main.             *)
(***************************************************************************)
\* line 128: a newline that follows two newlines is dropped (\n{3,} -> \n\n)
CollapseNewlines(s) ==
    ConcatAll([i \in DOMAIN s |->
        IF s[i] = "\n" /\ i >= 3 /\ s[i - 1] = "\n" /\ s[i - 2] = "\n"
        THEN <<>> ELSE <<s[i]>>])

IsBlank(c) == c \in {" ", "\t"}

\* line 129: a run of two or more spaces and tabs becomes one space
CollapseBlanks(s) ==
    ConcatAll([i \in DOMAIN s |->
        IF ~IsBlank(s[i]) THEN <<s[i]>>
        ELSE IF i > 1 /\ IsBlank(s[i - 1]) THEN <<>>
        ELSE IF i < Len(s) /\ IsBlank(s[i + 1]) THEN <<" ">>
        ELSE <<s[i]>>])

\* a hyphen and a newline stand at h and h + 1 between two word characters
HyphenBreakAt(s, h) ==
    /\ h > 1 /\ h + 2 <= Len(s)
    /\ s[h] = "-" /\ s[h + 1] = "\n"
    /\ IsWord(s[h - 1]) /\ IsWord(s[h + 2])

\* the position where the run of word characters that ends at e begins
WordStart(s, e) ==
    LET stops == {j \in 1..e : ~IsWord(s[j])}
    IN  IF stops = {} THEN 1 ELSE SetMax(stops) + 1

RECURSIVE HyphenJoined(_, _)
\* re.sub takes the matches of (\w+)-\n(\w+) from left to right without overlap:
\* the break at h is joined unless the word before it is the second word of a
\* break that was joined
HyphenJoined(s, h) ==
    /\ HyphenBreakAt(s, h)
    /\ LET p == WordStart(s, h - 1)
       IN  ~(p > 2 /\ HyphenJoined(s, p - 2))

\* line 130: (\w+)-\n(\w+) -> \1\2
JoinHyphenated(s) ==
    ConcatAll([i \in DOMAIN s |->
        IF HyphenJoined(s, i) \/ (i > 1 /\ HyphenJoined(s, i - 1))
        THEN <<>> ELSE <<s[i]>>])

\* clean_and_stitch_text(pages), lines 126-131
clean_and_stitch_text(pages) ==
    PyStrip(JoinHyphenated(CollapseBlanks(CollapseNewlines(Join(pages, <<"\n", "\n">>)))))

(***************************************************************************)
(* pdf_processor.process_pdf and pdf_processor.main, data_cleaner.main.    *)
(* A record of a JSONL file is modelled by its source_file, chunk_index    *)
(* and text; id, doc_id, title and created_at are left out.                *)
(***************************************************************************)
MaxPdfs == 2        \* PDFs in the input folder

\* a page of prose, 58 characters
ProsePage ==
    <<"s", "a", "v", "i", "n", "g", " ", "a", " ", "p", "a", "r", "t", " ", "o", "f", " ",
      "e", "v", "e", "r", "y", " ", "s", "a", "l", "a", "r", "y", " ", "b", "u", "i", "l",
      "d", "s", " ", "a", "n", " ", "e", "m", "e", "r", "g", "e", "n", "c", "y", " ", "f",
      "u", "n", "d", " ", "n", "o", "w">>

\* a page of figures, 58 characters
TablePage ==
    <<"2", "0", "2", "1", " ", "2", "0", "2", "2", " ", "2", "0", "2", "3", " ", "1", "0",
      ".", "5", " ", "1", "1", ".", "2", " ", "1", "2", ".", "9", " ", "4", "5", "0", " ",
      "9", "0", "0", " ", "1", "3", "5", "0", " ", "1", "8", "0", "0", " ", "2", "2", "5",
      "0", " ", "2", "7", "0", "0", "0">>

\* a page with a doubled space and a word hyphenated over a line break
BrokenPage ==
    <<"s", "p", "e", "n", "d", " ", "l", "e", "s", "s", " ", "t", "h", "a", "n", " ", "y",
      "o", "u", " ", "e", "a", "r", "n", " ", " ", "a", "n", "d", " ", "k", "e", "e", "p",
      " ", "a", "n", " ", "e", "m", "e", "r", "-", "\n", "g", "e", "n", "c", "y", " ", "f",
      "u", "n", "d", " ", "f", "o", "r", " ", "h", "a", "r", "d", " ", "t", "i", "m", "e",
      "s">>

\* a page of 26 characters
LeafletPage ==
    <<"k", "e", "e", "p", " ", "a", " ", "b", "u", "d", "g", "e", "t", " ", "a", "n", "d",
      " ", "t", "r", "a", "c", "k", " ", "i", "t">>

\* a page of whitespace
BlankPage ==
    <<" ", "\n", " ">>

\* the pages read_pdf_text_pages returns for each PDF of the input folder
read_pdf_text_pages(name) ==
    CASE name = "guide"   -> <<ProsePage, TablePage, BrokenPage>>
      [] name = "table"   -> <<TablePage, ProsePage>>
      [] name = "leaflet" -> <<LeafletPage>>
      [] name = "scan"    -> <<>>
      [] name = "blank"   -> <<BlankPage>>

\* lines 155-168: the records written for the chunks, numbered by enumerate
ChunkRecords(name, cs) ==
    [i \in DOMAIN cs |-> [source_file |-> name, chunk_index |-> i - 1, text |-> cs[i]]]

\* process_pdf(pdf_path, out_dir, chunk_size, chunk_overlap, ...), lines 144-170:
\* the ways the call can end.  A call of chunk_text that does not terminate
\* appends windows until memory runs out: the MemoryError is raised to main, or
\* the process is killed; windows then counts the first MaxWindows of them.
process_pdf(name, size, overlap) ==
    LET pages     == read_pdf_text_pages(name)
        full_text == clean_and_stitch_text(pages)
        windows   == ChunkLoop(full_text, size, overlap, 0, <<>>)
    IN  IF pages = <<>>
        THEN {[outcome |-> "no_pages", windows |-> 0, records |-> <<>>]}
        ELSE IF full_text = <<>>
        THEN {[outcome |-> "no_text", windows |-> 0, records |-> <<>>]}
        ELSE IF ~ChunkTerminates(full_text, size, overlap)
        THEN {[outcome |-> o, windows |-> MaxWindows, records |-> <<>>] :
                 o \in {"memory_error", "killed"}}
        ELSE {[outcome |-> "written", windows |-> Len(windows),
               records |-> ChunkRecords(name, StripChunks(windows))]}

\* main, lines 173-186: the arguments are parsed and the input folder is listed
PdfMainStart ==
    /\ pdf_pc = "start"
    /\ pdf_pc' = IF pdf_paths = <<>> THEN "done" ELSE "loop"
    /\ UNCHANGED <<args, pdf_paths, pdf_i, pdf_log, data_chunks, data_clean_chunks>>
    /\ UNCHANGED <<indexerVars, chunkVars, chatVars, cleanerVars, extractVars, cleanTextVars, webVars>>

\* the loop of main ended by the first PDF that fails
AfterPdfStopOnFailure(outcome, done, total) ==
    IF outcome = "killed" THEN "killed"
    ELSE IF outcome # "written" \/ done = total THEN "done"
    ELSE "loop"

\* lines 190-194: where main stands after a PDF, `done` of `total` gone through:
\* an exception of process_pdf is caught and reported and the loop goes on
AfterPdf(outcome, done, total) ==
    IF outcome = "killed" THEN "killed"
    ELSE IF done = total THEN "done"
    ELSE "loop"

\* main, lines 189-194: one pass of the loop over pdf_paths
ProcessNextPdf ==
    /\ pdf_pc = "loop"
    /\ LET name == pdf_paths[pdf_i + 1]
       IN  \E r \in process_pdf(name, args.chunk_size, args.chunk_overlap) :
              /\ pdf_log' = Append(pdf_log, [name |-> name, outcome |-> r.outcome,
                                             windows |-> r.windows])
              /\ data_chunks' =
                    IF r.outcome = "written"
                    THEN [data_chunks EXCEPT ![name] =
                             [exists |-> TRUE, records |-> r.records]]
                    ELSE data_chunks
              /\ pdf_i' = pdf_i + 1
              /\ pdf_pc' = AfterPdf(r.outcome, pdf_i + 1, Len(pdf_paths))
    /\ UNCHANGED <<args, pdf_paths, data_clean_chunks>>
    /\ UNCHANGED <<indexerVars, chunkVars, chatVars, cleanerVars, extractVars, cleanTextVars, webVars>>

\* a line of a chunk file as json.loads takes it:
\*   kind  "object", "nonobject" (valid JSON, not an object) or "badjson"
\*   text  of an object: "str", "num" (a number other than 0) or "absent"
\*   rec   of an object: its fields, text as characters when it is a str
ChunkLine(rec) == [kind |-> "object", text |-> "str", rec |-> rec]

\* data_cleaner.main, lines 58-64, one line of a file:
\*   "skip"  json.loads raised JSONDecodeError, caught: continue
\*   "raise" an exception the except clause does not name leaves main
\*   "drop"  `if not text: continue`
\*   "keep"  the record is written with the cleaned text
CleanLineOutcome(line) ==
    CASE line.kind = "badjson"   -> "skip"
      [] line.kind = "nonobject" -> "raise"     \* obj.get: AttributeError
      [] line.text = "absent"    -> "drop"      \* clean_text(""): `if not raw`
      [] line.text = "num"       -> "raise"     \* unicodedata.normalize: TypeError
      [] OTHER -> IF clean_text(line.rec.text) = <<>> THEN "drop" ELSE "keep"

RECURSIVE CleanLines(_, _)
\* lines 56-64: the loop over the lines of one file, from the state
\* acc = [records, original_count, cleaned_count, raised]
CleanLines(lines, acc) ==
    IF lines = <<>> \/ acc.raised THEN acc
    ELSE LET line == Head(lines)
             o    == CleanLineOutcome(line)
             seen == [acc EXCEPT !.original_count = @ + 1]
         IN  CleanLines(Tail(lines),
                CASE o = "keep"  ->
                       [seen EXCEPT !.records = Append(@, [line.rec EXCEPT
                                                   !.text = clean_text(line.rec.text)]),
                                    !.cleaned_count = @ + 1]
                  [] o = "raise" -> [seen EXCEPT !.raised = TRUE]
                  [] OTHER       -> seen)

\* lines 54-65: one file, opened for writing and read to its end or to the
\* line that raises
CleanOneFile(lines) ==
    CleanLines(lines, [records |-> <<>>, original_count |-> 0, cleaned_count |-> 0,
                       raised |-> FALSE])

\* data_cleaner.main, lines 56-64: the records kept of a file that process_pdf wrote
CleanFile(recs) == CleanOneFile([i \in DOMAIN recs |-> ChunkLine(recs[i])]).records

\* data_cleaner.main, lines 41-67: one run over the files of ./data_chunks
CleanerMain ==
    /\ data_clean_chunks' =
          [n \in PdfNames |->
              IF data_chunks[n].exists
              THEN [exists |-> TRUE, records |-> CleanFile(data_chunks[n].records)]
              ELSE data_clean_chunks[n]]
    /\ UNCHANGED <<args, pdf_paths, pdf_i, pdf_pc, pdf_log, data_chunks>>
    /\ UNCHANGED <<indexerVars, chunkVars, chatVars, cleanerVars, extractVars, cleanTextVars, webVars>>

(***************************************************************************)
(* One call of clean_text on a text of a few lines.                        *)
(***************************************************************************)
MaxRawLines == 2    \* lines of a text given to clean_text

\* a page number: 12 characters, 6 of them letters
PageLine ==
    <<"P", "a", "g", "e", " ", "3", " ", "o", "f", " ", "1", "0">>

\* a page number in capitals: 13 characters, 6 of them letters
PageLineUpper ==
    <<"P", "A", "G", "E", " ", "1", "2", " ", "O", "F", " ", "4", "0">>

\* a page number between blanks: 14 characters, 6 of them letters
PageLineSpaced ==
    <<" ", " ", "p", "a", "g", "e", " ", "1", " ", "o", "f", " ", "2", " ">>

\* prose: 56 characters, 54 of them letters
AlphaLine ==
    <<"f", "i", "n", "a", "n", "c", "i", "a", "l", "l", "i", "t", "e", "r", "a", "c", "y",
      "m", "e", "a", "n", "s", "u", "n", "d", "e", "r", "s", "t", "a", "n", "d", "i", "n",
      "g", "h", "o", "w", "m", "o", "n", "e", "y", "w", "o", "r", "k", "s", " ", "f", "o",
      "r", " ", "y", "o", "u">>

\* prose,with the ligature U+FB01: 55 characters, 53 of them letters
AlphaLigature ==
    <<"<fi>", "n", "a", "n", "c", "i", "a", "l", "l", "i", "t", "e", "r", "a", "c", "y", "m",
      "e", "a", "n", "s", "u", "n", "d", "e", "r", "s", "t", "a", "n", "d", "i", "n", "g",
      "h", "o", "w", "m", "o", "n", "e", "y", "w", "o", "r", "k", "s", " ", "f", "o", "r",
      " ", "y", "o", "u">>

\* a line that begins with a copyright notice: 57 characters, 56 of them letters
AlphaCopyright ==
    <<"C", "o", "p", "y", "r", "i", "g", "h", "t", " ", "p", "r", "o", "t", "e", "c", "t",
      "i", "o", "n", "e", "x", "t", "e", "n", "d", "s", "t", "o", "a", "l", "l", "w", "r",
      "i", "t", "t", "e", "n", "m", "a", "t", "e", "r", "i", "a", "l", "s", "o", "f", "t",
      "h", "e", "b", "a", "n", "k">>

\* a line with a run of five equal letters: 56 characters, 56 of them letters
AlphaRun ==
    <<"z", "z", "z", "z", "z", "f", "i", "n", "a", "n", "c", "i", "a", "l", "l", "i", "t",
      "e", "r", "a", "c", "y", "m", "e", "a", "n", "s", "u", "n", "d", "e", "r", "s", "t",
      "a", "n", "d", "i", "n", "g", "h", "o", "w", "m", "o", "n", "e", "y", "w", "o", "r",
      "k", "s", "n", "o", "w">>

\* a line that begins with a bullet mark: 54 characters, 53 of them letters
AlphaBullet ==
    <<"*", "f", "i", "n", "a", "n", "c", "i", "a", "l", "l", "i", "t", "e", "r", "a", "c",
      "y", "m", "e", "a", "n", "s", "u", "n", "d", "e", "r", "s", "t", "a", "n", "d", "i",
      "n", "g", "h", "o", "w", "m", "o", "n", "e", "y", "w", "o", "r", "k", "s", "t", "o",
      "d", "a", "y">>

\* the lines the texts are made of
RawLines == {PageLine, PageLineUpper, PageLineSpaced, AlphaLine, AlphaLigature,
             AlphaCopyright, AlphaRun, AlphaBullet, ProsePage, TablePage}

\* the texts: up to MaxRawLines lines with "\n" between them
RawTexts == {Join(ls, <<"\n">>) : ls \in SeqsUpTo(RawLines, MaxRawLines)}

CleanTextCall ==
    /\ ~cleaned.done
    /\ cleaned' = [done |-> TRUE, text |-> clean_text(raw_text)]
    /\ UNCHANGED raw_text
    /\ UNCHANGED <<indexerVars, chunkVars, pipelineVars, chatVars, cleanerVars, extractVars, webVars>>

CleanTextInit ==
    /\ raw_text \in RawTexts
    /\ cleaned = [done |-> FALSE, text |-> <<>>]
    /\ IndexerAtRest /\ ChunkAtRest /\ PipelineAtRest /\ ChatAtRest /\ WebAtRest /\ CleanerAtRest
    /\ ExtractAtRest

CleanTextNext == CleanTextCall

SpecCleanText == CleanTextInit /\ [][CleanTextNext]_vars

(***************************************************************************)
(* One run of data_cleaner.main over chunk files of any content.           *)
(***************************************************************************)
MaxCleanLines == 2  \* lines per chunk file given to the cleaner

\* a text of 50 characters that cleaning leaves as it is
Prose50 ==
    <<"s", "a", "v", "i", "n", "g", " ", "a", " ", "p", "a", "r", "t", " ", "o", "f", " ",
      "e", "v", "e", "r", "y", " ", "s", "a", "l", "a", "r", "y", " ", "b", "u", "i", "l",
      "d", "s", " ", "a", " ", "l", "a", "r", "g", "e", " ", "f", "u", "n", "d", ".">>

\* a text of 68 characters of which cleaning leaves 49: a line of prose between
\* blanks, a page number and a bare number
Prose49Padded ==
    <<" ", " ", "s", "a", "v", "i", "n", "g", " ", "a", " ", "p", "a", "r", "t", " ", "o",
      "f", " ", "e", "v", "e", "r", "y", " ", "s", "a", "l", "a", "r", "y", " ", "b", "u",
      "i", "l", "d", "s", " ", "a", " ", "l", "a", "r", "g", "e", " ", "f", "u", "n", "d",
      " ", "\n", "P", "a", "g", "e", " ", "3", " ", "o", "f", " ", "1", "0", "\n", "1",
      "2">>


CleanRec(i, txt) == [source_file |-> "guide", chunk_index |-> i, text |-> txt]

\* the lines the chunk files are made of
CleanerLines ==
    {ChunkLine(CleanRec(0, Prose50)), ChunkLine(CleanRec(1, Prose49Padded)),
     ChunkLine(CleanRec(2, TablePage)),
     [kind |-> "object", text |-> "absent", rec |-> CleanRec(3, <<>>)],
     [kind |-> "object", text |-> "num", rec |-> CleanRec(4, <<>>)],
     [kind |-> "nonobject", text |-> "absent", rec |-> CleanRec(5, <<>>)],
     [kind |-> "badjson", text |-> "absent", rec |-> CleanRec(6, <<>>)]}

\* what glob finds: no file, the file a, or the file a and after it the file b
\* of at most one line
CleanerInputs ==
    LET first  == SeqsUpTo(CleanerLines, MaxCleanLines)
        second == SeqsUpTo(CleanerLines, 1)
    IN  {<<>>}
        \cup {<<[name |-> "a", lines |-> f]>> : f \in first}
        \cup {<<[name |-> "a", lines |-> f], [name |-> "b", lines |-> g]>> :
                 f \in first, g \in second}

RECURSIVE CleanFiles(_, _)
\* lines 50-66: the loop over the files, from the state acc = [out, summaries, raised]
CleanFiles(files, acc) ==
    IF files = <<>> \/ acc.raised THEN acc
    ELSE LET f == Head(files)
             r == CleanOneFile(f.lines)
         IN  CleanFiles(Tail(files),
                [out       |-> [acc.out EXCEPT ![f.name] =
                                   [exists |-> TRUE, records |-> r.records]],
                 summaries |-> IF r.raised THEN acc.summaries
                               ELSE Append(acc.summaries,
                                           [name |-> f.name, kept |-> r.cleaned_count,
                                            of |-> r.original_count]),
                 raised    |-> r.raised])

\* data_cleaner.main, lines 41-67, from start to end
CleanerRun ==
    /\ clean_run.outcome = "none"
    /\ LET r == CleanFiles(clean_in, [out |-> clean_out, summaries |-> <<>>,
                                       raised |-> FALSE])
       IN  /\ clean_out' = r.out
           /\ clean_run' = [outcome   |-> IF clean_in = <<>> THEN "no_files"
                                          ELSE IF r.raised THEN "raised" ELSE "done",
                            summaries |-> r.summaries]
    /\ UNCHANGED clean_in
    /\ UNCHANGED <<indexerVars, chunkVars, pipelineVars, chatVars, extractVars, cleanTextVars, webVars>>

CleanerInit ==
    /\ clean_in \in CleanerInputs
    /\ clean_out = [n \in CleanNames |-> NoFile]
    /\ clean_run = NoCleanRun
    /\ IndexerAtRest /\ ChunkAtRest /\ PipelineAtRest /\ ChatAtRest /\ WebAtRest /\ ExtractAtRest /\ CleanTextAtRest

CleanerNext == CleanerRun

SpecCleaner == CleanerInit /\ [][CleanerNext]_vars

\* the values given for --chunk_size and --chunk_overlap
ChunkSizes == {60, 200}
ChunkOverlaps == {0, 20, 60, 200}

\* the listings of the input folder: up to MaxPdfs PDFs, each once
PdfBatches ==
    {b \in SeqsUpTo(PdfNames, MaxPdfs) : \A i, j \in DOMAIN b : i # j => b[i] # b[j]}

PipelineInit ==
    /\ args \in [chunk_size : ChunkSizes, chunk_overlap : ChunkOverlaps]
    /\ pdf_paths \in PdfBatches
    /\ pdf_i = 0 /\ pdf_pc = "start" /\ pdf_log = <<>>
    /\ data_chunks = [n \in PdfNames |-> NoFile]
    /\ data_clean_chunks = [n \in PdfNames |-> NoFile]
    /\ IndexerAtRest /\ ChunkAtRest /\ ChatAtRest /\ WebAtRest /\ CleanerAtRest /\ ExtractAtRest /\ CleanTextAtRest

PipelineNext == PdfMainStart \/ ProcessNextPdf \/ CleanerMain

SpecPipeline == PipelineInit /\ [][PipelineNext]_vars

(***************************************************************************)
(* s_app: rewrite_query, run_rag_chain and the chat input of               *)
(* show_chatbot_page.  The text of a stored document is modelled by the    *)
(* document it is from and its length; the prompt by its sections.         *)
(***************************************************************************)
MaxMessages == 4    \* entries of st.session_state.messages

RetrieverK == 3         \* search_kwargs "k"
MaxContextChars == 2000 \* max_chars
MinTruncatedChars == 200

\* lines 297-304: the keywords in the order of the dict, each with its expansion
financial_keywords ==
    <<[keyword |->
          <<"s", "a", "v", "e">>,
       expansion |->
          <<"s", "a", "v", "i", "n", "g", " ", "t", "i", "p", "s", " ", "m", "o", "n", "e",
            "y", " ", "m", "a", "n", "a", "g", "e", "m", "e", "n", "t">>],
      [keyword |->
          <<"b", "u", "d", "g", "e", "t">>,
       expansion |->
          <<"b", "u", "d", "g", "e", "t", "i", "n", "g", " ", "f", "i", "n", "a", "n", "c",
            "i", "a", "l", " ", "p", "l", "a", "n", "n", "i", "n", "g", " ", "s", "p", "e",
            "n", "d", "i", "n", "g">>],
      [keyword |->
          <<"d", "e", "b", "t">>,
       expansion |->
          <<"d", "e", "b", "t", " ", "m", "a", "n", "a", "g", "e", "m", "e", "n", "t", " ",
            "l", "o", "a", "n", " ", "c", "r", "e", "d", "i", "t", " ", "c", "a", "r", "d">>],
      [keyword |->
          <<"i", "n", "v", "e", "s", "t">>,
       expansion |->
          <<"i", "n", "v", "e", "s", "t", "m", "e", "n", "t", " ", "r", "e", "t", "u", "r",
            "n", "s", " ", "s", "t", "o", "c", "k", "s", " ", "b", "o", "n", "d", "s">>],
      [keyword |->
          <<"r", "e", "t", "i", "r", "e">>,
       expansion |->
          <<"r", "e", "t", "i", "r", "e", "m", "e", "n", "t", " ", "p", "l", "a", "n", "n",
            "i", "n", "g", " ", "E", "P", "F", " ", "K", "W", "S", "P">>],
      [keyword |->
          <<"e", "m", "e", "r", "g", "e", "n", "c", "y">>,
       expansion |->
          <<"e", "m", "e", "r", "g", "e", "n", "c", "y", " ", "f", "u", "n", "d", " ", "s",
            "a", "v", "i", "n", "g", "s", " ", "b", "u", "f", "f", "e", "r">>]>>

QuerySave ==
    <<"H", "o", "w", " ", "d", "o", " ", "I", " ", "s", "a", "v", "e", "?">>

QueryDebt ==
    <<"m", "y", " ", "B", "u", "d", "g", "e", "t", " ", "a", "n", "d", " ", "d", "e", "b",
      "t">>

QueryOther ==
    <<"w", "h", "a", "t", " ", "i", "s", " ", "E", "P", "F">>

QueryUpper ==
    <<"R", "E", "T", "I", "R", "E", " ", "e", "a", "r", "l", "y">>

\* `keyword in query_lower`, line 308
ContainsKeyword(query, keyword) == \E i \in DOMAIN query : LiteralAt(query, i, keyword)

\* the expansion put in the place of the query
RewriteQueryReplacing(query) ==
    LET hits == {k \in DOMAIN financial_keywords :
                    ContainsKeyword(query, financial_keywords[k].keyword)}
    IN  IF hits = {} THEN query ELSE financial_keywords[SetMin(hits)].expansion

\* rewrite_query(query), lines 295-310: the expansion of the first keyword of
\* the dict that the lowercased query contains is put after the query
rewrite_query(query) ==
    LET hits == {k \in DOMAIN financial_keywords :
                    ContainsKeyword(query, financial_keywords[k].keyword)}
    IN  IF hits = {} THEN query
        ELSE query \o <<" ">> \o financial_keywords[SetMin(hits)].expansion

\* a document of the store, as the retriever returns it
Doc(id, len) == [id |-> id, len |-> len]

\* the documents of the store, the most similar to the queries first
RankedDocs == <<Doc("d1", 1500), Doc("d2", 300), Doc("d3", 900)>>

StoredDocs == Range(RankedDocs)

\* what retriever.invoke can return: up to k documents, each once, in the
\* order of their similarity
Retrievals ==
    {ds \in SeqsUpTo(StoredDocs, RetrieverK) :
        \E f \in [DOMAIN ds -> DOMAIN RankedDocs] :
            /\ \A i \in DOMAIN ds : ds[i] = RankedDocs[f[i]]
            /\ \A i, j \in DOMAIN ds : i < j => f[i] < f[j]}

RECURSIVE ContextParts(_, _, _, _)
\* lines 324-337: the loop over docs from document i on, with the locals
\* context_parts and total_chars
ContextParts(docs, i, parts, total_chars) ==
    IF i > Len(docs) THEN parts
    ELSE IF total_chars + docs[i].len <= MaxContextChars
    THEN ContextParts(docs, i + 1, Append(parts, [of |-> docs[i].id, len |-> docs[i].len]),
                      total_chars + docs[i].len)
    ELSE LET remaining == MaxContextChars - total_chars
         IN  IF remaining > MinTruncatedChars
             THEN Append(parts, [of |-> docs[i].id, len |-> remaining])
             ELSE parts

\* line 339, len("\n\n".join(context_parts))
JoinedLen(parts) ==
    IF parts = <<>> THEN 0
    ELSE LET upto[k \in 0..Len(parts)] == IF k = 0 THEN 0 ELSE upto[k - 1] + parts[k].len
         IN  upto[Len(parts)] + 2 * (Len(parts) - 1)

\* lines 342-349: the prompt, section by section
BuildPrompt(query, context_parts) ==
    <<[section |-> "role"],
      [section |-> "context", parts |-> context_parts, chars |-> JoinedLen(context_parts)],
      [section |-> "question", query |-> query],
      [section |-> "answer_from_context"]>>

\* line 352
Sources(docs) ==
    [i \in DOMAIN docs |-> [content  |-> [of |-> docs[i].id, len |-> docs[i].len],
                            metadata |-> [id |-> docs[i].id]]]

\* what the generation engine does with a prompt: it streams an answer, streams
\* nothing, or the call fails
Generations == {"answer", "nothing", "raises"}

\* show_chatbot_page, lines 512-549: one chat input, handled to the end.
\* retrieval is "failed" when retriever.invoke raises, and else "ok" with the
\* documents it returned; the engine is reached only with a prompt.
Ask(query, retrieval, docs, generated) ==
    LET user       == [role |-> "user", content |-> query]
        failed     == retrieval = "failed"
        prompt     == BuildPrompt(query, ContextParts(docs, 1, <<>>, 0))
        answered   == ~failed /\ generated # "raises"
        assistant  == [role |-> "assistant",
                       content |-> IF generated = "answer" THEN "answer" ELSE "",
                       sources |-> Sources(docs)]
    IN  /\ Len(messages) + 2 <= MaxMessages
        /\ messages' = IF answered THEN messages \o <<user, assistant>>
                       ELSE Append(messages, user)
        /\ chat' = [query      |-> query,
                    expanded   |-> rewrite_query(query),
                    retrieval  |-> IF failed THEN "failed" ELSE "ok",
                    docs       |-> docs,
                    prompt     |-> IF failed THEN <<>> ELSE prompt,
                    llm_called |-> ~failed,
                    shown      |-> IF answered THEN "response" ELSE "error"]
        /\ clicked' = "chat_input"
        /\ UNCHANGED <<current_page, pre_test_completed, post_test_completed, user_id>>
        /\ UNCHANGED <<calcVars, saveVars>>
        /\ UNCHANGED <<indexerVars, chunkVars, pipelineVars, cleanerVars, extractVars, cleanTextVars>>

ChatQueries == {QuerySave, QueryDebt, QueryOther, QueryUpper}

ChatInit ==
    ChatAtRest /\ WebAtRest /\ IndexerAtRest /\ ChunkAtRest /\ PipelineAtRest /\ CleanerAtRest /\ ExtractAtRest /\ CleanTextAtRest

ChatNext ==
    \E query \in ChatQueries :
        \/ Ask(query, "failed", <<>>, "none")
        \/ \E docs \in Retrievals, generated \in Generations :
              Ask(query, "ok", docs, generated)

SpecChat == ChatInit /\ [][ChatNext]_vars

(***************************************************************************)
(* pdf_processor.read_pdf_text_pages, extract_images_from_page, ocr_image. *)
(* A text is modelled by its length, after the strip the code applies; a   *)
(* page by what each call on it does:                                      *)
(*   native_ok, native_len   page.extract_text() returns, and how much     *)
(*   images_ok, images       page.images can be read, and the images       *)
(*   page_ocr                the OCR of the whole page: ok, and how much   *)
(* and an image by its size, whether its crop and its OCR succeed, and the *)
(* length of the text the OCR finds.                                       *)
(***************************************************************************)
MaxPages == 2       \* pages of the PDF given to read_pdf_text_pages

MinImageSize == 100         \* MIN_IMAGE_SIZE
MinImageArea == 10000       \* MIN_IMAGE_AREA
MinImageTextLen == 20       \* `len(img_text) > 20`
OcrThreshold == 60          \* --ocr_threshold

\* lines 39-42: the image is not skipped as small
BigEnough(img) ==
    /\ ~(img.width < MinImageSize \/ img.height < MinImageSize)
    /\ ~(img.width * img.height < MinImageArea)

\* extract_images_from_page(page), lines 29-55: the images cropped before the
\* first crop that fails; the exception is swallowed
extract_images_from_page(page) ==
    LET failing == {i \in DOMAIN page.images :
                       BigEnough(page.images[i]) /\ ~page.images[i].crop_ok}
        upto    == IF failing = {} THEN Len(page.images) ELSE SetMin(failing) - 1
    IN  SelectSeq(SubSeq(page.images, 1, upto), BigEnough)

\* ocr_image(img), lines 58-69: the length of the text, 0 when OCR is not
\* available or fails
ocr_image(img, opts) == IF opts.ocr_available /\ img.ocr_ok THEN img.len ELSE 0

\* lines 96-103: the "[Image Text]: ..." entries of page_texts
ImageParts(page, opts) ==
    IF opts.extract_images /\ page.images # <<>> /\ opts.ocr_available
    THEN LET embedded == extract_images_from_page(page)
             texts    == [i \in DOMAIN embedded |-> ocr_image(embedded[i], opts)]
             kept     == SelectSeq(texts, LAMBDA n : n > MinImageTextLen)
         IN  [i \in DOMAIN kept |-> [kind |-> "image", len |-> kept[i]]]
    ELSE <<>>

RECURSIVE SumLen(_)
SumLen(parts) == IF parts = <<>> THEN 0 ELSE Head(parts).len + SumLen(Tail(parts))

\* line 107: len(combined_text.replace("[Image Text]:", "").strip()), where each
\* image entry is left with the newline before it and a space
CombinedLen(native_len, image_parts) ==
    IF image_parts = <<>> THEN native_len
    ELSE IF native_len = 0 THEN SumLen(image_parts) + 2 * (Len(image_parts) - 1)
    ELSE native_len + SumLen(image_parts) + 2 * Len(image_parts)

\* full-page OCR also at the threshold
FullPageOcrTriedAtThreshold(page, opts) ==
    /\ CombinedLen(page.native_len, ImageParts(page, opts)) <= OcrThreshold
    /\ opts.ocr_available

\* line 107: whether the page is rendered and given to full-page OCR
FullPageOcrTried(page, opts) ==
    /\ CombinedLen(page.native_len, ImageParts(page, opts)) < OcrThreshold
    /\ opts.ocr_available

\* lines 84-122, one page: whether an exception leaves the function, and the
\* entries of page_texts that are joined for the page
PageTexts(page, opts) ==
    LET native == [kind |-> "native", len |-> page.native_len]
        images == ImageParts(page, opts)
    IN  IF ~page.native_ok \/ ~page.images_ok
        THEN [raised |-> TRUE, parts |-> <<>>]
        ELSE IF FullPageOcrTried(page, opts) /\ page.page_ocr.ok /\ page.page_ocr.len > 0
        THEN [raised |-> FALSE, parts |-> <<[kind |-> "ocr", len |-> page.page_ocr.len]>>]
        ELSE [raised |-> FALSE, parts |-> <<native>> \o images]

RECURSIVE ReadPages(_, _, _)
\* lines 84-123: the loop over pdf.pages, from the list texts
ReadPages(pages, opts, texts) ==
    IF pages = <<>> THEN [outcome |-> "ok", texts |-> texts]
    ELSE LET p == PageTexts(Head(pages), opts)
         IN  IF p.raised THEN [outcome |-> "raised", texts |-> <<>>]
             ELSE ReadPages(Tail(pages), opts, Append(texts, p.parts))

\* read_pdf_text_pages(pdf_path, ...), lines 72-124, for a PDF given by what
\* pdfplumber does with it
ReadPdfTextPages(doc, opts) ==
    IF ~doc.opens THEN [outcome |-> "raised", texts |-> <<>>]
    ELSE ReadPages(doc.pages, opts, <<>>)

Image(w, h, crop_ok, ocr_ok, len) ==
    [width |-> w, height |-> h, crop_ok |-> crop_ok, ocr_ok |-> ocr_ok, len |-> len]

Page(native_ok, native_len, images_ok, images, page_ocr_ok, page_ocr_len) ==
    [native_ok |-> native_ok, native_len |-> native_len,
     images_ok |-> images_ok, images |-> images,
     page_ocr |-> [ok |-> page_ocr_ok, len |-> page_ocr_len]]

\* the pages the PDFs are made of
PageCatalogue ==
    {Page(TRUE, 100, TRUE, <<>>, TRUE, 90),
     Page(TRUE, 10, TRUE, <<>>, TRUE, 80),
     Page(FALSE, 0, TRUE, <<>>, TRUE, 80),
     Page(TRUE, 100, FALSE, <<>>, TRUE, 80),
     Page(TRUE, 100, TRUE, <<Image(300, 200, TRUE, TRUE, 30)>>, TRUE, 80),
     Page(TRUE, 30, TRUE, <<Image(300, 200, FALSE, TRUE, 30)>>, FALSE, 0),
     Page(TRUE, 0, TRUE, <<Image(50, 50, TRUE, TRUE, 40), Image(120, 120, TRUE, FALSE, 40)>>,
          TRUE, 0),
     Page(TRUE, 40, TRUE, <<Image(300, 200, TRUE, TRUE, 15), Image(90, 400, TRUE, TRUE, 50),
                            Image(200, 200, TRUE, TRUE, 25)>>, TRUE, 70),
     Page(TRUE, 59, TRUE, <<>>, TRUE, 80),
     Page(TRUE, 60, TRUE, <<>>, TRUE, 80),
     Page(TRUE, 30, TRUE, <<Image(200, 200, TRUE, TRUE, 20), Image(200, 300, TRUE, TRUE, 21)>>,
          TRUE, 0)}

\* one call of read_pdf_text_pages, from start to end, with the pages it gave
\* to full-page OCR
ReadPdf ==
    /\ extracted.outcome = "none"
    /\ LET r == ReadPdfTextPages(pdf_doc, extract_opts)
       IN  extracted' =
               [outcome  |-> r.outcome,
                texts    |-> r.texts,
                full_ocr |-> IF r.outcome = "ok"
                             THEN [i \in DOMAIN pdf_doc.pages |->
                                      FullPageOcrTried(pdf_doc.pages[i], extract_opts)]
                             ELSE <<>>]
    /\ UNCHANGED <<pdf_doc, extract_opts>>
    /\ UNCHANGED <<indexerVars, chunkVars, pipelineVars, chatVars, cleanerVars, cleanTextVars, webVars>>

ExtractInit ==
    /\ pdf_doc \in [opens : BOOLEAN, pages : SeqsUpTo(PageCatalogue, MaxPages)]
    /\ extract_opts \in [ocr_available : BOOLEAN, extract_images : BOOLEAN]
    /\ extracted = NoExtraction
    /\ IndexerAtRest /\ ChunkAtRest /\ PipelineAtRest /\ ChatAtRest /\ WebAtRest /\ CleanerAtRest
    /\ CleanTextAtRest

ExtractNext == ReadPdf

SpecExtract == ExtractInit /\ [][ExtractNext]_vars

(***************************************************************************)
(* The debt-ratio calculator.  No file of the repository defines or calls  *)
(* it; it is modelled from section 4.7 of the specification.  A ratio is   *)
(* kept exact, as the fraction num / den of a percentage.                  *)
(***************************************************************************)
MaxIncomeK == 5     \* incomes up to MaxIncomeK thousand
MaxDebtK == 26      \* debt payments up to MaxDebtK hundred

\* the bands in their order: the first one whose bound the ratio does not exceed
DebtBands ==
    <<[upto |-> 30, status |-> "HEALTHY"],
      [upto |-> 40, status |-> "MODERATE"],
      [upto |-> 50, status |-> "HIGH"]>>

\* ratio = debt_payments / income * 100, and 0 when income <= 0
DebtRatioOf(income, debt_payments) ==
    IF income <= 0 THEN [num |-> 0, den |-> 1]
    ELSE [num |-> debt_payments * 100, den |-> income]

\* the band with a strict bound
BandOfStrict(ratio) ==
    LET fits == {b \in DOMAIN DebtBands : ratio.num < DebtBands[b].upto * ratio.den}
    IN  IF fits = {} THEN "CRITICAL" ELSE DebtBands[SetMin(fits)].status

\* the band of a ratio
BandOf(ratio) ==
    LET fits == {b \in DOMAIN DebtBands : ratio.num <= DebtBands[b].upto * ratio.den}
    IN  IF fits = {} THEN "CRITICAL" ELSE DebtBands[SetMin(fits)].status

\* debt_ratio(income, debt)
debt_ratio(income, debt_payments) ==
    LET ratio == DebtRatioOf(income, debt_payments)
    IN  [ratio |-> ratio, status |-> BandOf(ratio)]

Incomes == {-1000, 0} \cup {1000 * k : k \in 1..MaxIncomeK}

DebtPayments == {100 * k + e : k \in 0..MaxDebtK, e \in {0, 1}}

\* one call of the calculator
DebtRatioCall(income, debt_payments) ==
    /\ ~calc.called
    /\ LET r == debt_ratio(income, debt_payments)
       IN  calc' = [called |-> TRUE, income |-> income, debt_payments |-> debt_payments,
                    ratio |-> r.ratio, status |-> r.status]
    /\ UNCHANGED <<sessionVars, saveVars>>
    /\ UNCHANGED <<indexerVars, chunkVars, pipelineVars, chatVars, cleanerVars, extractVars, cleanTextVars>>

CalcInit ==
    /\ CalcAtRest /\ SessionAtRest /\ SaveAtRest
    /\ IndexerAtRest /\ ChunkAtRest /\ PipelineAtRest /\ ChatAtRest /\ CleanerAtRest
    /\ ExtractAtRest /\ CleanTextAtRest

CalcNext == \E income \in Incomes, debt_payments \in DebtPayments : DebtRatioCall(income, debt_payments)

SpecCalc == CalcInit /\ [][CalcNext]_vars

(***************************************************************************)
(* s_app.save_test_results and save_feedback: each reads the whole JSON    *)
(* file, appends one entry and writes the whole file back.  A file is      *)
(* "absent", "whole" (valid JSON holding the entries) or "torn" (opened    *)
(* for writing and not yet, or not properly, written: no valid JSON).      *)
(***************************************************************************)
MaxSavers == 2      \* sessions saving at the same time

\* lines 182-189 and 216-223: the entries a call finds; a missing file and one
\* that json.load fails on both give the empty list
ReadEntries(file) == IF file.bytes = "whole" THEN file.entries ELSE <<>>

\* lines 193 and 227, open(filename, 'w'): the file is truncated
Truncated == [bytes |-> "torn", entries |-> <<>>]

\* lines 194 and 228, json.dump: what the file holds after all_data was written
\* from the start of a file that held `file` (more than nothing when another
\* session wrote it since the open): all_data, or all_data and behind it what
\* remains of a longer text
Dumped(file, all_data) ==
    {[bytes |-> "whole", entries |-> all_data]}
        \cup (IF file.bytes = "whole" THEN {[bytes |-> "torn", entries |-> <<>>]} ELSE {})

\* the whole of save_test_results or save_feedback with no other session in
\* between: the files after the entry was saved to the file named f
SaveWhole(files, f, entry) ==
    [files EXCEPT ![f] = [bytes |-> "whole", entries |-> Append(ReadEntries(files[f]), entry)]]

\* an entry stored before the sessions began
OldEntry == [user_id |-> 0, tag |-> "old"]

\* the entry session p saves (lines 172-179, 206-214)
NewEntry(p) == [user_id |-> p, tag |-> "new"]

\* a session about to call save_test_results or save_feedback
IdleSaver(f) == [pc |-> "idle", file |-> f, all_data |-> <<>>]

\* lines 181-191: session p reads the file and appends its entry to what it read
SaverLoad(p) ==
    /\ savers[p].pc = "idle"
    /\ savers' = [savers EXCEPT ![p].pc = "loaded",
                                ![p].all_data = Append(ReadEntries(data_files[savers[p].file]),
                                                       NewEntry(p))]
    /\ UNCHANGED <<data_files, calcVars, sessionVars>>
    /\ UNCHANGED <<indexerVars, chunkVars, pipelineVars, chatVars, cleanerVars, extractVars, cleanTextVars>>

\* line 193: session p opens the file for writing
SaverOpen(p) ==
    /\ savers[p].pc = "loaded"
    /\ data_files' = [data_files EXCEPT ![savers[p].file] = Truncated]
    /\ savers' = [savers EXCEPT ![p].pc = "opened"]
    /\ UNCHANGED <<calcVars, sessionVars>>
    /\ UNCHANGED <<indexerVars, chunkVars, pipelineVars, chatVars, cleanerVars, extractVars, cleanTextVars>>

\* line 194: session p writes all_data and closes the file
SaverDump(p) ==
    /\ savers[p].pc = "opened"
    /\ \E file \in Dumped(data_files[savers[p].file], savers[p].all_data) :
          data_files' = [data_files EXCEPT ![savers[p].file] = file]
    /\ savers' = [savers EXCEPT ![p].pc = "done"]
    /\ UNCHANGED <<calcVars, sessionVars>>
    /\ UNCHANGED <<indexerVars, chunkVars, pipelineVars, chatVars, cleanerVars, extractVars, cleanTextVars>>

\* data/test_results.json holds an entry, data/user_feedback.json does not exist
SaveInit ==
    /\ data_files = [f \in DataFileNames |->
                        IF f = "test_results" THEN [bytes |-> "whole", entries |-> <<OldEntry>>]
                        ELSE NoDataFile]
    /\ savers \in [1..MaxSavers -> {IdleSaver(f) : f \in DataFileNames}]
    /\ CalcAtRest /\ SessionAtRest
    /\ IndexerAtRest /\ ChunkAtRest /\ PipelineAtRest /\ ChatAtRest /\ CleanerAtRest
    /\ ExtractAtRest /\ CleanTextAtRest

SaveNext == \E p \in 1..MaxSavers : SaverLoad(p) \/ SaverOpen(p) \/ SaverDump(p)

SpecSave == SaveInit /\ [][SaveNext]_vars

(***************************************************************************)
(* s_app.py, one browser session: each action is one rerun of the script   *)
(* after a click, the sidebar of main first and then the page.  user_id is *)
(* the second the session state was made in; a reset comes at a later      *)
(* second.                                                                 *)
(***************************************************************************)
MaxUsers == 2       \* participants one after the other in the session
MaxRecords == 3     \* entries of data/test_results.json

\* lines 60-72, reset_session: the session state of the next participant
ResetSession(button) ==
    /\ user_id < MaxUsers
    /\ messages' = <<>>
    /\ current_page' = "welcome"
    /\ pre_test_completed' = FALSE
    /\ post_test_completed' = FALSE
    /\ user_id' = user_id + 1
    /\ clicked' = button
    /\ UNCHANGED <<chat, calcVars, saveVars>>
    /\ UNCHANGED <<indexerVars, chunkVars, pipelineVars, cleanerVars, extractVars, cleanTextVars>>

\* lines 385-387, "Start Pre-Test" on the welcome page
StartPreTest ==
    /\ current_page = "welcome"
    /\ current_page' = "pre_test"
    /\ clicked' = "start"
    /\ UNCHANGED <<pre_test_completed, post_test_completed, user_id, chatVars, calcVars, saveVars>>
    /\ UNCHANGED <<indexerVars, chunkVars, pipelineVars, cleanerVars, extractVars, cleanTextVars>>

\* lines 456-471, "Submit Assessment" of show_pisa_test(test_type): the result
\* is saved and the flag and the page are set
SubmitAssessment(test_type) ==
    /\ current_page = IF test_type = "pre" THEN "pre_test" ELSE "post_test"
    /\ Len(data_files["test_results"].entries) < MaxRecords
    /\ data_files' = SaveWhole(data_files, "test_results", [user_id |-> user_id, tag |-> test_type])
    /\ IF test_type = "pre"
       THEN /\ pre_test_completed' = TRUE
            /\ current_page' = "chatbot"
            /\ UNCHANGED post_test_completed
       ELSE /\ post_test_completed' = TRUE
            /\ current_page' = "results"
            /\ UNCHANGED pre_test_completed
    /\ clicked' = "submit"
    /\ UNCHANGED <<user_id, savers, chatVars, calcVars>>
    /\ UNCHANGED <<indexerVars, chunkVars, pipelineVars, cleanerVars, extractVars, cleanTextVars>>

\* lines 483-485, "Take Post-Test" on the chatbot page
TakePostTest ==
    /\ current_page = "chatbot"
    /\ current_page' = "post_test"
    /\ clicked' = "take_post_test"
    /\ UNCHANGED <<pre_test_completed, post_test_completed, user_id, chatVars, calcVars, saveVars>>
    /\ UNCHANGED <<indexerVars, chunkVars, pipelineVars, cleanerVars, extractVars, cleanTextVars>>

\* lines 503-549, a chat input on the chatbot page
SessionAsk ==
    /\ current_page = "chatbot"
    /\ \/ Ask(QueryOther, "failed", <<>>, "none")
       \/ \E docs \in {<<>>, <<RankedDocs[1]>>}, generated \in Generations :
             Ask(QueryOther, "ok", docs, generated)

\* lines 663-665, "Start New User Session" on the results page
StartNewUserSession == current_page = "results" /\ ResetSession("new_session")

\* lines 852-860, "New User" in the sidebar: a reset on the welcome and admin
\* pages; on the other pages the click only shows "Confirm Reset", and the
\* rerun a click on that button causes finds "New User" not clicked and never
\* comes to reset_session
NewUser ==
    IF current_page \in {"welcome", "admin"}
    THEN ResetSession("new_user")
    ELSE /\ clicked' = "new_user"
         /\ UNCHANGED <<current_page, pre_test_completed, post_test_completed, user_id>>
         /\ UNCHANGED <<chatVars, calcVars, saveVars>>
         /\ UNCHANGED <<indexerVars, chunkVars, pipelineVars, cleanerVars, extractVars, cleanTextVars>>

\* lines 874-878, "View Dashboard" in the sidebar, the password given
ViewDashboard ==
    /\ current_page' = "admin"
    /\ clicked' = "view_dashboard"
    /\ UNCHANGED <<pre_test_completed, post_test_completed, user_id, chatVars, calcVars, saveVars>>
    /\ UNCHANGED <<indexerVars, chunkVars, pipelineVars, cleanerVars, extractVars, cleanTextVars>>

\* the dashboard left for the chatbot page
AdminLogoutToChatbot ==
    /\ current_page = "admin"
    /\ current_page' = "chatbot"
    /\ clicked' = "logout"
    /\ UNCHANGED <<pre_test_completed, post_test_completed, user_id, chatVars, calcVars, saveVars>>
    /\ UNCHANGED <<indexerVars, chunkVars, pipelineVars, cleanerVars, extractVars, cleanTextVars>>

\* lines 677-679, "Logout" on the admin dashboard
AdminLogout ==
    /\ current_page = "admin"
    /\ current_page' = "welcome"
    /\ clicked' = "logout"
    /\ UNCHANGED <<pre_test_completed, post_test_completed, user_id, chatVars, calcVars, saveVars>>
    /\ UNCHANGED <<indexerVars, chunkVars, pipelineVars, cleanerVars, extractVars, cleanTextVars>>

\* the chat cleared by a call of reset_session
ClearChatByReset == ResetSession("clear_chat")

\* lines 882-884, "Clear Chat" in the sidebar
ClearChat ==
    /\ messages' = <<>>
    /\ clicked' = "clear_chat"
    /\ UNCHANGED <<current_page, pre_test_completed, post_test_completed, user_id>>
    /\ UNCHANGED <<chat, calcVars, saveVars>>
    /\ UNCHANGED <<indexerVars, chunkVars, pipelineVars, cleanerVars, extractVars, cleanTextVars>>

SessionInit ==
    /\ SessionAtRest /\ ChatAtRest /\ CalcAtRest /\ SaveAtRest
    /\ IndexerAtRest /\ ChunkAtRest /\ PipelineAtRest /\ CleanerAtRest
    /\ ExtractAtRest /\ CleanTextAtRest

SessionNext ==
    \/ StartPreTest
    \/ \E test_type \in {"pre", "post"} : SubmitAssessment(test_type)
    \/ TakePostTest
    \/ SessionAsk
    \/ StartNewUserSession
    \/ NewUser
    \/ ViewDashboard
    \/ AdminLogout
    \/ ClearChat

SpecSession == SessionInit /\ [][SessionNext]_vars

(***************************************************************************)
(* Properties of the indexer.                                              *)
(***************************************************************************)
HashesOf(docs) == {MetaHash(docs[i]) : i \in DOMAIN docs}

\* C1: after any sequence of reset and incremental runs the store never holds
\* two records with the same content_hash.
C1_NoDuplicateHash ==
    \A i, j \in DOMAIN store : i # j => MetaHash(store[i]) # MetaHash(store[j])

\* C2: an incremental run over the corpus of the incremental run just before it
\* adds no record: the store is as long after it as before it.
C2_IdempotentIngest ==
    (run.mode = "incremental" /\ run.rerun) => Len(store) = Len(run.store_before)

\* a second incremental run over a two-record corpus that the first run stored
C2_SecondRunReached ==
    /\ run.mode = "incremental" /\ run.rerun
    /\ run.outcome = "nothing_new"
    /\ Len(run.docs) = 2 /\ store = run.docs

\* C3: two concurrent incremental runs never both find the same content_hash new
\* and both insert it.
C3_WritersSerialized ==
    \A p, q \in DOMAIN writers :
        (p # q /\ writers[p].added /\ writers[q].added)
            => HashesOf(writers[p].new_docs) \cap HashesOf(writers[q].new_docs) = {}

\* C9: two loaded records with the same text carry the same content_hash,
\* whatever their other fields are.
C9_SameTextSameHash ==
    \A i, j \in DOMAIN loaded.docs :
        loaded.docs[i].page_content = loaded.docs[j].page_content
            => MetaHash(loaded.docs[i]) = MetaHash(loaded.docs[j])

\* a load that returned two records of one text, one of them from a line that
\* carried a content_hash of its own
C9_OwnHashLoaded ==
    /\ loaded.outcome = "ok"
    /\ \E i, j \in DOMAIN loaded.docs :
          /\ loaded.docs[i].page_content = loaded.docs[j].page_content
          /\ loaded.docs[i].metadata["id"] # loaded.docs[j].metadata["id"]
    /\ \E f \in DOMAIN glob_files : \E l \in DOMAIN glob_files[f] :
          glob_files[f][l] = LineAlphaOwnHash
    /\ \E f \in DOMAIN glob_files : \E l \in DOMAIN glob_files[f] :
          glob_files[f][l] = LineBetaNested
    /\ \E f \in DOMAIN glob_files : \E l \in DOMAIN glob_files[f] :
          glob_files[f][l] = LineBeta

\* C10 as claimed: after a run in reset mode the store holds exactly the given
\* records, also when no record is given.
C10_ResetHoldsGivenRecords ==
    (run.mode = "reset" /\ run.outcome \in {"reset", "no_docs"}) => store = run.docs

\* C10 as amended: a run in reset mode that loaded at least one record leaves
\* exactly the loaded records in the store; a run that loaded none returns
\* before the collection is dropped and leaves the store as it was.
C10_ResetUnlessNothingLoaded ==
    run.mode = "reset" =>
        IF run.outcome = "reset"
        THEN run.docs # <<>> /\ store = run.docs
        ELSE run.docs = <<>> /\ store = run.store_before

\* a reset run that replaced a store of other records
C10_ResetReplacedStore ==
    /\ run.mode = "reset" /\ run.outcome = "reset"
    /\ run.store_before # <<>>
    /\ \A i \in DOMAIN run.store_before :
          \A j \in DOMAIN store : store[j] # run.store_before[i]

\* C11: a run in incremental mode leaves the records of the store as they were
\* and appends exactly the incoming records whose content_hash the store did
\* not hold when the run scanned it; it appends nothing when there is none.
C11_IncrementalAddsNovel ==
    run.mode = "incremental" =>
        store = run.store_before
                  \o SelectSeq(run.docs,
                               LAMBDA d : MetaHash(d) \notin HashesOf(run.store_before))

\* an incremental run over two records into a store that held one of the two
\* hashes: one record was added, the other was not
C11_NovelSubsetAdded ==
    /\ run.mode = "incremental" /\ run.outcome = "added"
    /\ run.store_before # <<>>
    /\ Len(run.docs) = 2
    /\ Len(store) = Len(run.store_before) + 1

\* a line that load_and_prepare_docs has to take for a record: a JSON object
\* whose text is a non-empty string
WellFormed(line) ==
    /\ line.kind = "object"
    /\ "text" \in DOMAIN line.data
    /\ line.data["text"].t = "str" /\ line.data["text"].v # ""

\* the lines of all files, file after file
AllLines(files) ==
    IF files = <<>> THEN <<>>
    ELSE IF Len(files) = 1 THEN files[1]
    ELSE files[1] \o files[2]

\* C12: whatever malformed lines the files hold, the call returns, with every
\* well-formed record of every file loaded and every malformed line counted.
C12_MalformedLinesSkipped ==
    (loaded.outcome # "none" /\ glob_files # <<>>) =>
        /\ loaded.outcome = "ok"
        /\ Len(loaded.docs) = Len(SelectSeq(AllLines(glob_files), WellFormed))
        /\ loaded.warnings =
              Len(SelectSeq(AllLines(glob_files), LAMBDA l : ~WellFormed(l)))

\* C19: every record load_and_prepare_docs returns has metadata whose values are
\* all primitive, with no text key and no metadata object, and a content_hash
\* that is the digest of the record's own text.
C19_MetadataFlatAndHashed ==
    \A i \in DOMAIN loaded.docs :
        LET m == loaded.docs[i].metadata
        IN  /\ \A k \in DOMAIN m : IsPrimitive(m[k])
            /\ "text" \notin DOMAIN m
            /\ "metadata" \in DOMAIN m => m["metadata"].t # "dict"
            /\ MetaHash(loaded.docs[i]) = JStr(Sha256Hex16(loaded.docs[i].page_content))

\* a load that returned the record whose nested metadata held a text, an object
\* and a content_hash, beside a record with a list
C19_NestedRecordsLoaded ==
    /\ loaded.outcome = "ok"
    /\ \E i \in DOMAIN loaded.docs :
          /\ loaded.docs[i].page_content = "gamma"
          /\ loaded.docs[i].metadata["extra"].t = "str"
          /\ loaded.docs[i].metadata["metadata"].t = "str"
    /\ \E i \in DOMAIN loaded.docs :
          /\ loaded.docs[i].page_content = "beta"
          /\ "tags" \in DOMAIN loaded.docs[i].metadata

(***************************************************************************)
(* Properties of the chunker.                                              *)
(***************************************************************************)
ValidChunking == 0 <= chunk_overlap /\ chunk_overlap < chunk_size

RECURSIVE Flatten(_)
Flatten(ss) == IF ss = <<>> THEN <<>> ELSE Head(ss) \o Flatten(Tail(ss))

\* the chunks joined, each but the first without the chunk_overlap characters it
\* shares with its predecessor
Rejoin(cs, overlap) ==
    Flatten([i \in DOMAIN cs |->
                IF i = 1 THEN cs[i] ELSE SubSeq(cs[i], overlap + 1, Len(cs[i]))])

NoWindowTrimmed == \A i \in DOMAIN chunks : Strip(chunks[i]) = chunks[i]

WindowStart(k) == (k - 1) * (chunk_size - chunk_overlap)
WindowEnd(k) == WindowStart(k) + chunk_size

\* the windows taken so far are those that start at WindowStart, none before
\* the last reaches the end of the text, and the call is over at the first
\* window that does
WindowsAdvance ==
    /\ \A k \in DOMAIN chunks :
          chunks[k] = SubSeq(text, WindowStart(k) + 1,
                             IF WindowEnd(k) < Len(text) THEN WindowEnd(k) ELSE Len(text))
    /\ \A k \in DOMAIN chunks : k < Len(chunks) => WindowEnd(k) < Len(text)
    /\ chunk_pc = "loop" => (chunks # <<>> => WindowEnd(Len(chunks)) < Len(text))
    /\ chunk_pc = "loop" => start = WindowStart(Len(chunks) + 1)
    /\ chunk_pc = "done" => (chunks = <<>> /\ text = <<>>) \/ (chunks # <<>> /\ WindowEnd(Len(chunks)) >= Len(text))

\* C23: for 0 <= overlap < size, chunk_text terminates: the window starts
\* advance by size - overlap from offset 0 and the loop stops at the first
\* window whose end reaches the end of the text.
C23_ChunkTextTerminates ==
    /\ [](ValidChunking => WindowsAdvance)
    /\ [](ValidChunking => <>(chunk_pc = "done"))

\* a call with overlapping windows returned after its third window or a later one
C23_ThreeWindowsThenDone ==
    /\ ValidChunking /\ chunk_overlap > 0
    /\ chunk_pc = "done"
    /\ Len(chunks) >= 3

(***************************************************************************)
(* Properties of the PDF pipeline.                                         *)
(***************************************************************************)
\* C7: under a configuration with chunk_overlap >= chunk_size nothing is
\* processed: no window is produced for any PDF and no output file is written.
C7_BadOverlapRejected ==
    args.chunk_overlap >= args.chunk_size =>
        /\ \A i \in DOMAIN pdf_log : pdf_log[i].windows = 0
        /\ \A n \in PdfNames : ~data_chunks[n].exists

\* the chunk_index values of the records are 0, 1, ..., n-1 in this order
SequentialFromZero(recs) == \A i \in DOMAIN recs : recs[i].chunk_index = i - 1

\* C8: the records of one document carry the chunk_index values 0, 1, ..., n-1,
\* in the file process_pdf writes and in the file data_cleaner writes from it.
C8_IndicesSequential ==
    \A n \in PdfNames :
        /\ SequentialFromZero(data_chunks[n].records)
        /\ SequentialFromZero(data_clean_chunks[n].records)

\* process_pdf raised because the extraction gave no pages or no text
ExtractionFailed(entry) == entry.outcome \in {"no_pages", "no_text"}

\* C16: a PDF whose extraction yields no pages or no text fails alone: the
\* failure is reported, no JSONL file is written for it, main goes on with the
\* next PDF, and a run that ends has gone through every PDF of the batch.
C16_FailedPdfSkipped ==
    /\ \A i \in DOMAIN pdf_log :
          ExtractionFailed(pdf_log[i]) =>
              /\ pdf_log[i].name = pdf_paths[i]
              /\ ~data_chunks[pdf_log[i].name].exists
              /\ i = Len(pdf_log) =>
                    pdf_pc = IF i = Len(pdf_paths) THEN "done" ELSE "loop"
    /\ pdf_pc = "done" => Len(pdf_log) = Len(pdf_paths)

\* a finished run over two PDFs: the first gave no pages or no text, the second
\* was written
C16_BatchWentOnAfterFailure ==
    /\ pdf_pc = "done" /\ Len(pdf_paths) = 2
    /\ ExtractionFailed(pdf_log[1])
    /\ pdf_log[2].outcome = "written"
    /\ data_chunks[pdf_paths[2]].exists
    /\ ~data_chunks[pdf_paths[1]].exists

(***************************************************************************)
(* Properties of the cleaner.                                              *)
(***************************************************************************)
\* C13: whatever lines the chunk files hold, the run of the cleaner does not
\* raise: it ends with every file read to its end and summarized.
C13_CleanerNeverRaises ==
    clean_run.outcome # "none" =>
        /\ clean_run.outcome \in {"done", "no_files"}
        /\ Len(clean_run.summaries) = Len(clean_in)
        /\ \A i \in DOMAIN clean_in :
              /\ clean_out[clean_in[i].name].exists
              /\ clean_run.summaries[i].of = Len(clean_in[i].lines)

\* C14: clean_text returns the empty string or a string of at least 50
\* characters for every text of the input, and no record written to the
\* cleaned files has an empty text.
C14_EmptyOrFiftyChars ==
    /\ \A i \in DOMAIN clean_in : \A j \in DOMAIN clean_in[i].lines :
          LET line == clean_in[i].lines[j]
          IN  (line.kind = "object" /\ line.text = "str") =>
                 \/ clean_text(line.rec.text) = <<>>
                 \/ Len(clean_text(line.rec.text)) >= MinCleanLength
    /\ \A n \in CleanNames : \A k \in DOMAIN clean_out[n].records :
          Len(clean_out[n].records[k].text) >= MinCleanLength

\* a run over a file of a text that cleans to 49 characters and a text of 50
\* characters: the first was dropped, the second written
C14_ThresholdTextsCleaned ==
    /\ clean_run.outcome = "done"
    /\ \E i \in DOMAIN clean_in :
          /\ Len(clean_in[i].lines) = 2
          /\ clean_in[i].lines[1].rec.text = Prose49Padded
          /\ clean_in[i].lines[2].rec.text = Prose50
          /\ Len(clean_out[clean_in[i].name].records) = 1
          /\ clean_out[clean_in[i].name].records[1].text = Prose50
          /\ clean_out[clean_in[i].name].records[1].chunk_index = 0

\* the lines of the text given to clean_text, and of the text it returned
InputLines == SplitLines(raw_text)
OutputLines == IF cleaned.text = <<>> THEN <<>> ELSE SplitLines(cleaned.text)

\* the lines of the input that read "Page N of M"
PageLines == {PageLine, PageLineUpper, PageLineSpaced}

\* at least 90% of the characters of the line are letters, and it is longer
\* than 50 characters
MostlyAlphaLong(line) == Len(line) > 50 /\ 10 * CountAlpha(line) >= 9 * Len(line)

BeginsWithNotice(line) ==
    \/ MatchesNotice(line, <<"c", "o", "p", "y", "r", "i", "g", "h", "t">>)
    \/ MatchesNotice(line, <<"<copy>">>)
    \/ MatchesNotice(line, <<"c", "o", "n", "f", "i", "d", "e", "n", "t", "i", "a", "l">>)
    \/ MatchesNotice(line, <<"f", "o", "r", " ", "i", "n", "t", "e", "r", "n", "a", "l", " ",
                             "u", "s", "e", " ", "o", "n", "l", "y">>)

C15_PageFailuresContained ==
    (extracted.outcome # "none" /\ pdf_doc.opens) =>
        /\ extracted.outcome = "ok"
        /\ Len(extracted.texts) = Len(pdf_doc.pages)
        /\ \A i \in DOMAIN extracted.texts :
              ~pdf_doc.pages[i].native_ok =>
                  \A k \in DOMAIN extracted.texts[i] :
                      extracted.texts[i][k].kind = "native" => extracted.texts[i][k].len = 0

\* the entries of page_texts before full-page OCR: the native text and the
\* accepted texts of the embedded images
PriorTexts(page, opts) == <<[kind |-> "native", len |-> page.native_len]>> \o ImageParts(page, opts)

\* C22: a page is given to full-page OCR exactly when its combined text, the
\* marker left out, is shorter than ocr_threshold and OCR is available; an OCR
\* result that is not empty replaces the whole text of the page, and an empty
\* or failed OCR leaves the text as it was.
C22_FullPageOcrWhenShort ==
    extracted.outcome = "ok" =>
        \A i \in DOMAIN pdf_doc.pages :
            LET page  == pdf_doc.pages[i]
                prior == PriorTexts(page, extract_opts)
                short == CombinedLen(page.native_len, Tail(prior)) < OcrThreshold
            IN  /\ extracted.full_ocr[i] <=> (short /\ extract_opts.ocr_available)
                /\ extracted.texts[i] =
                      IF extracted.full_ocr[i] /\ page.page_ocr.ok /\ page.page_ocr.len > 0
                      THEN <<[kind |-> "ocr", len |-> page.page_ocr.len]>>
                      ELSE prior

\* one page was replaced by its OCR text, one kept its text after an empty OCR,
\* and one with a text of just ocr_threshold characters was not given to OCR
C22_OcrReplacedAndKept ==
    /\ extracted.outcome = "ok"
    /\ Len(pdf_doc.pages) = 2
    /\ pdf_doc.pages[1].native_len = 59 /\ extracted.full_ocr[1]
    /\ extracted.texts[1] = <<[kind |-> "ocr", len |-> 80]>>
    /\ pdf_doc.pages[2].native_len = 60 /\ ~extracted.full_ocr[2]

\* the lengths of the OCR texts of the embedded images of a page, in order
ImageOcrLens(page, opts) ==
    LET embedded == extract_images_from_page(page)
    IN  [k \in DOMAIN embedded |-> ocr_image(embedded[k], opts)]

\* C24: the OCR text of an embedded image is left out when it is shorter than
\* 20 characters and is otherwise, from 20 characters on, appended to the text
\* of the page under the marker.
C24_ImageTextFromTwenty ==
    (extracted.outcome = "ok" /\ extract_opts.ocr_available /\ extract_opts.extract_images) =>
        \A i \in DOMAIN pdf_doc.pages :
            (\A k \in DOMAIN extracted.texts[i] : extracted.texts[i][k].kind # "ocr") =>
                SelectSeq(extracted.texts[i], LAMBDA part : part.kind = "image")
                    = [k \in DOMAIN SelectSeq(ImageOcrLens(pdf_doc.pages[i], extract_opts),
                                              LAMBDA n : n >= MinImageTextLen) |->
                          [kind |-> "image",
                           len  |-> SelectSeq(ImageOcrLens(pdf_doc.pages[i], extract_opts),
                                              LAMBDA n : n >= MinImageTextLen)[k]]]

(***************************************************************************)
(* Properties of the chat.                                                 *)
(***************************************************************************)
HasSection(prompt, name) == \E i \in DOMAIN prompt : prompt[i].section = name

\* C4: when retrieval returns zero documents the prompt handed to the engine
\* holds the "no information" instruction and no context section.
C4_NoEvidencePrompt ==
    (chat.retrieval = "ok" /\ chat.docs = <<>>) =>
        /\ HasSection(chat.prompt, "no_information")
        /\ ~HasSection(chat.prompt, "context")

\* C5: when the similarity search fails the input is handled like a search
\* with zero results: the "no information" instruction is issued and a
\* response, not an error, is shown.
C5_FailureAsNoInformation ==
    chat.retrieval = "failed" =>
        /\ HasSection(chat.prompt, "no_information")
        /\ chat.shown = "response"

\* C17: the prompt handed to the engine holds the question as the user wrote
\* it, not the expanded query, and the fixed response-format directive.
C17_QuestionAndFormatDirective ==
    chat.llm_called =>
        /\ \E i \in DOMAIN chat.prompt :
              chat.prompt[i].section = "question" /\ chat.prompt[i].query = chat.query
        /\ HasSection(chat.prompt, "response_format")

\* the context section of the prompt of the last chat input
ContextOf(prompt) == prompt[CHOOSE i \in DOMAIN prompt : prompt[i].section = "context"]

\* C28: every source run_rag_chain returns for citation had its content, whole
\* or as a prefix, in the context of the prompt, and the sources are in the
\* order of the retrieval.
C28_SourcesWereInContext ==
    chat.shown = "response" =>
        LET sources == messages[Len(messages)].sources
            parts   == ContextOf(chat.prompt).parts
        IN  /\ Len(sources) = Len(chat.docs)
            /\ \A i \in DOMAIN sources : sources[i].metadata.id = chat.docs[i].id
            /\ \A i \in DOMAIN sources :
                  \E k \in DOMAIN parts :
                      parts[k].of = sources[i].content.of /\ parts[k].len <= sources[i].content.len

\* C29: the context text in the prompt is at most max_chars = 2000 characters
\* long, and a document is in it truncated only when more than 200 characters
\* of the budget remained for it.
C29_ContextWithinBudget ==
    chat.llm_called =>
        LET context == ContextOf(chat.prompt)
            parts   == context.parts
        IN  /\ context.chars <= MaxContextChars
            /\ \A k \in DOMAIN parts :
                  parts[k].len < chat.docs[k].len =>
                      MaxContextChars - SumLen(SubSeq(parts, 1, k - 1)) > MinTruncatedChars

\* the word w stands somewhere in s, letter case ignored
Occurs(w, s) ==
    \E i \in 1..(Len(s) - Len(w) + 1) : \A k \in DOMAIN w : Lower(s[i + k - 1]) = w[k]

\* one of the trigger keywords stands in the query
Triggered(query) == \E k \in DOMAIN financial_keywords : Occurs(financial_keywords[k].keyword, query)

\* C18: the expanded query begins with the query as it was given; it is longer
\* than the query when a trigger keyword stands in the lowercased query and is
\* the query itself when none does.
C18_ExpansionAdditive ==
    chat.retrieval # "none" =>
        /\ Len(chat.expanded) >= Len(chat.query)
        /\ SubSeq(chat.expanded, 1, Len(chat.query)) = chat.query
        /\ Triggered(chat.query) => Len(chat.expanded) > Len(chat.query)
        /\ ~Triggered(chat.query) => chat.expanded = chat.query

\* a query in capitals was expanded, and so was one with two trigger keywords
C18_QueriesExpanded ==
    /\ chat.query \in {QueryUpper, QueryDebt}
    /\ Len(chat.expanded) > Len(chat.query) + 10
    /\ Len(messages) >= 3
    /\ messages[1].content = QueryOther

(***************************************************************************)
(* Properties of the calculator.                                           *)
(***************************************************************************)
\* the ratio r is the percentage pct
IsPercent(r, pct) == r.num = pct * r.den

\* C21: the debt-ratio calculator returns debt_payments / income * 100, and 0
\* when income <= 0; the status is the one band of the four the ratio falls
\* in (at most 30, at most 40, at most 50, above 50); income 5000 with debt
\* 1500 gives 30.0 HEALTHY and income 5000 with debt 2600 gives 52.0 CRITICAL.
C21_DebtRatioBands ==
    calc.called =>
        /\ calc.ratio.den > 0
        /\ calc.income > 0 => calc.ratio.num * calc.income = calc.debt_payments * 100 * calc.ratio.den
        /\ calc.income <= 0 => calc.ratio.num = 0
        /\ calc.status = "HEALTHY" <=> calc.ratio.num <= 30 * calc.ratio.den
        /\ calc.status = "MODERATE" <=>
              (30 * calc.ratio.den < calc.ratio.num /\ calc.ratio.num <= 40 * calc.ratio.den)
        /\ calc.status = "HIGH" <=>
              (40 * calc.ratio.den < calc.ratio.num /\ calc.ratio.num <= 50 * calc.ratio.den)
        /\ calc.status = "CRITICAL" <=> calc.ratio.num > 50 * calc.ratio.den
        /\ (calc.income = 5000 /\ calc.debt_payments = 1500) =>
              (IsPercent(calc.ratio, 30) /\ calc.status = "HEALTHY")
        /\ (calc.income = 5000 /\ calc.debt_payments = 2600) =>
              (IsPercent(calc.ratio, 52) /\ calc.status = "CRITICAL")

\* the calculator was called with income 5000 and debt payments 1500
C21_BoundaryRatioComputed ==
    calc.called /\ calc.income = 5000 /\ calc.debt_payments = 1500 /\ calc.status = "HEALTHY"

(***************************************************************************)
(* Properties of the saved files.                                          *)
(***************************************************************************)
\* C25: when sessions call save_test_results, or save_feedback, at the same
\* time on one file, no update is lost: once the calls are over the file holds
\* every entry stored before and the new entry of each call.
C25_NoLostUpdate ==
    (\A p \in DOMAIN savers : savers[p].pc = "done") =>
        \A f \in DataFileNames :
            LET callers == {p \in DOMAIN savers : savers[p].file = f}
                before  == IF f = "test_results" THEN {OldEntry} ELSE {}
            IN  callers # {} =>
                    /\ data_files[f].bytes = "whole"
                    /\ before \cup {NewEntry(p) : p \in callers} \subseteq Range(data_files[f].entries)

(***************************************************************************)
(* Properties of the session.                                              *)
(***************************************************************************)
Pages == {"welcome", "pre_test", "chatbot", "post_test", "results", "admin"}

\* C26: after any sequence of button actions current_page is one of the six
\* pages; on the chatbot and post-test pages the pre-test is completed; on the
\* results page the post-test is completed; and a completed post-test implies
\* a completed pre-test.
C26_PagesFollowProgress ==
    /\ current_page \in Pages
    /\ current_page \in {"chatbot", "post_test"} => pre_test_completed
    /\ current_page = "results" => post_test_completed
    /\ post_test_completed => pre_test_completed

\* the session came back from the admin dashboard to the welcome page with both
\* tests of the participant completed
C26_BackFromAdminAfterTests ==
    /\ clicked = "logout"
    /\ current_page = "welcome"
    /\ pre_test_completed /\ post_test_completed

\* how many entries of the results file are the test_type record of user uid
TestRecords(uid, test_type) ==
    Cardinality({i \in DOMAIN data_files["test_results"].entries :
                    data_files["test_results"].entries[i] = [user_id |-> uid, tag |-> test_type]})

\* C27: for one user_id the results file receives at most one "pre" and at
\* most one "post" record, whatever pages the user goes through, the admin
\* dashboard included.
C27_OneRecordPerTest ==
    \A uid \in 1..MaxUsers, test_type \in {"pre", "post"} : TestRecords(uid, test_type) <= 1

\* C30: every assistant message of the chat history comes right after the user
\* message it answers; a question whose retrieval or generation raises adds
\* the user message and no assistant message; Clear Chat empties the history
\* and leaves current_page, the completion flags and user_id as they were.
C30_ChatHistoryPaired ==
    /\ [](\A i \in DOMAIN messages :
             messages[i].role = "assistant" => (i > 1 /\ messages[i - 1].role = "user"))
    /\ [][Len(messages') > Len(messages) =>
             LET user == [role |-> "user", content |-> chat'.query]
             IN  IF chat'.shown = "error"
                 THEN messages' = Append(messages, user)
                 ELSE /\ Len(messages') = Len(messages) + 2
                      /\ SubSeq(messages', 1, Len(messages) + 1) = Append(messages, user)
                      /\ messages'[Len(messages')].role = "assistant"]_vars
    /\ [][clicked' = "clear_chat" =>
             /\ messages' = <<>>
             /\ current_page' = current_page
             /\ pre_test_completed' = pre_test_completed
             /\ post_test_completed' = post_test_completed
             /\ user_id' = user_id]_vars

\* the chat was cleared on the chatbot page after a question that was
\* answered
C30_ClearedAfterAnswer ==
    /\ clicked = "clear_chat"
    /\ messages = <<>>
    /\ current_page = "chatbot" /\ pre_test_completed
    /\ chat.shown = "response"

(***************************************************************************)
(* The specification of the whole model: the runs of the indexer.          *)
(***************************************************************************)
Init == IndexerInit
Next == IndexerNext
Spec == Init /\ [][Next]_vars

====
